---- MODULE Spec2Model ----
(***************************************************************************)
(* State-machine model of the signature parser of src/detect-parse.c:      *)
(* the two-pass driver (SigInitHelper / SigInitDo), the option             *)
(* dispatcher (SigParseOptions), bidirectional cloning and the             *)
(* duplicate reconciliation of DetectEngineAppendSig.                      *)
(*                                                                         *)
(* Signatures live in a heap of cells addressed 1..Len(heap); NULL is 0.   *)
(* A freed cell keeps its address and is marked dead, so a later read of   *)
(* it is visible as undefined behaviour (last.ub).                         *)
(***************************************************************************)
EXTENDS Integers, Sequences, FiniteSets, TLC

VARIABLES
    heap,       \* Signature memory: sequence of Signature cells
    de_ctx,     \* DetectEngineCtx: signum, sigerror_*, sm_types_silent_error,
                \* sig_list, dup_sig_hash_table
    last,       \* what the last DetectEngineAppendSig call did and returned
    setup_log,  \* the Setup callbacks invoked during the last call, in order
    hist,       \* history of the calls made so far (bookkeeping only)
    cur_sig,    \* the Signature under construction that keyword setups work on
    sm_mem,     \* SigMatch memory: sequence of SigMatch cells
    op          \* what the last operation on cur_sig did and returned

vars == <<heap, de_ctx, last, setup_log, hist, cur_sig, sm_mem, op>>

----------------------------------------------------------------------------
(* Bounds of the model *)

MaxCalls == 4        \* DetectEngineAppendSig calls per engine, Spec
MaxSid == 2          \* sids 1..MaxSid
MaxRev == 2          \* revs 1..MaxRev
MaxParseCalls == 2   \* DetectEngineAppendSig calls per engine, SpecParse
MaxOpts == 2         \* options per rule, SpecParse
MaxMatch == 1         \* packet keywords of a rule, SpecTcpBuffer
MaxPayload == 2       \* payload keywords of a rule, SpecTcpBuffer
MaxExcl == 2          \* buffers counted per direction, SpecDirection
MaxProtoOps == 4      \* header and setups on one signature, SpecAlproto
MaxSigOps == 4        \* operations on one signature, SpecSigMatch
MaxSilentCalls == 4  \* DetectEngineAppendSig calls per engine, SpecSilent
MaxParens == 2       \* "(" before and ")" after the options, SpecBasics
MaxFew == 2          \* sticky buffers open at the start: this near to 0, 8 and 56
MaxBufferOps == 2    \* operations on the buffer vector of one signature
MaxLookupOps == 3    \* keyword setups before a lookup of the last SigMatch
MaxFileOps == 3      \* the header and the keyword setups before file handling is validated
MaxPrefilterSms == 3 \* SigMatches of the signature whose prefilter is chosen
MaxLifeSms == 3      \* keywords with a ctx in the signature that is built, flattened and freed
MaxLead == 1         \* options in front of the last one of a rule, SpecOptions

----------------------------------------------------------------------------
(* Program constants *)

\* a side selection that ignores the direction it is given
XorFirst(a, b) == a

NULL == 0
SIG_DIREC_NORMAL == 0
SIG_DIREC_SWITCHED == 1
SIG_DIREC_SRC == 0
SIG_DIREC_DST == 1
DETECT_DEFAULT_PRIO == 3

Xor(a, b) == IF a = b THEN 0 ELSE 1

----------------------------------------------------------------------------
(* Address and port lists (external collaborators).  A written list is a   *)
(* sequence of elements; the element 0 alone is the literal `any`.  An     *)
(* address element is <<family, value>>.  The parsers keep their lists     *)
(* sorted and merged, so the parsed form does not depend on the order in   *)
(* which the elements were written.                                        *)

RECURSIVE SetToSortedSeq(_)
SetToSortedSeq(S) ==
    IF S = {} THEN <<>>
    ELSE LET m == CHOOSE x \in S : \A y \in S : x <= y
         IN <<m>> \o SetToSortedSeq(S \ {m})

AddrAny == << <<0, 0>> >>
PortAny == <<0>>

NoAddress == [ipv4_head |-> <<>>, ipv6_head |-> <<>>]

DetectParseAddress(addrstr) ==
    IF addrstr = AddrAny
    THEN [ipv4_head |-> <<0>>, ipv6_head |-> <<0>>]
    ELSE [ipv4_head |-> SetToSortedSeq({addrstr[i][2] : i \in {j \in 1..Len(addrstr) : addrstr[j][1] = 4}}),
          ipv6_head |-> SetToSortedSeq({addrstr[i][2] : i \in {j \in 1..Len(addrstr) : addrstr[j][1] = 6}})]

DetectPortParse(portstr) ==
    SetToSortedSeq({portstr[i] : i \in 1..Len(portstr)})

DetectAddressListsAreEqual(l1, l2) == l1 = l2

DetectPortListsAreEqual(l1, l2) == l1 = l2

----------------------------------------------------------------------------
(* Signature cells *)

SigAlloc ==
    [alive |-> TRUE, id |-> 0, gid |-> 0, rev |-> 0, prio |-> -1, iid |-> 0,
     next |-> NULL, init_flags |-> {}, flags |-> {},
     src |-> NoAddress, dst |-> NoAddress, sp |-> <<>>, dp |-> <<>>]

\* a cell after SigFree: reading it is undefined behaviour
FreedSig == [SigAlloc EXCEPT !.alive = FALSE, !.prio = 0]

Live(h, a) == a \in 1..Len(h) /\ h[a].alive

SigFree(h, a) == [h EXCEPT ![a] = FreedSig]

----------------------------------------------------------------------------
(* Keyword table.  The table index of a keyword is its DetectKeywordId.    *)

sigmatch_table == <<"sid", "gid", "rev", "requires", "kwa", "kwb">>

\* SigTableGet + SigTableGetIndex: the index of the keyword, 0 when unknown
SigTableGet(name) ==
    IF \E i \in 1..Len(sigmatch_table) : sigmatch_table[i] = name
    THEN CHOOSE i \in 1..Len(sigmatch_table) : sigmatch_table[i] = name
    ELSE 0

\* st->Setup: what the keyword's setup does to the signature.  The result
\* code a setup reports is part of the rule under test (opt.ret).
KeywordSetup(s, opt) ==
    IF opt.ret # 0 THEN [ret |-> opt.ret, s |-> s]
    ELSE IF opt.name = "sid" THEN [ret |-> 0, s |-> [s EXCEPT !.id = opt.val]]
    ELSE IF opt.name = "gid" THEN [ret |-> 0, s |-> [s EXCEPT !.gid = opt.val]]
    ELSE IF opt.name = "rev" THEN [ret |-> 0, s |-> [s EXCEPT !.rev = opt.val]]
    ELSE [ret |-> 0, s |-> s]

----------------------------------------------------------------------------
(* SigParseOptions: one option of the option body.  p is the parse state:  *)
(* the signature being built, the engine's sm_types_silent_error and the   *)
(* log of setup calls.  Returns 1 when more options follow, 0 at the end,  *)
(* a negative code on error.                                               *)

\* a result that never is the silent one
SilentErrorResultNeverSilent(silent, idx) == -1

\* a result that is silent for the first SilentError of a keyword type and an
\* ordinary error afterwards
SilentErrorResultFirstSilent(silent, idx) == IF ~silent[idx] THEN -2 ELSE -1

\* the first SilentError of a keyword type in an engine is reported as an
\* ordinary error, every later one as silent
SilentErrorResult(silent, idx) == IF ~silent[idx] THEN -1 ELSE -2

\* a gate that skips in the scan pass only
SkipInScanPassOnly(requires, requires_only) == requires /\ ~requires_only

\* options that are only processed in the other pass are skipped
SkipInThisPass(requires, requires_only) ==
    (requires /\ ~requires_only) \/ (~requires /\ requires_only)

SigParseOptions(p, opt, n, is_last, requires, dir) ==
    LET requires_only == opt.name \in {"requires", "sid"}
        finish == IF is_last THEN 0 ELSE 1
        idx == SigTableGet(opt.name)
    IN  IF SkipInThisPass(requires, requires_only)
        THEN [ret |-> finish, p |-> p]
        ELSE IF idx = 0
        THEN [ret |-> -1, p |-> p]
        ELSE LET r == KeywordSetup(p.s, opt)
                 out == IF r.ret >= 0 THEN finish
                        ELSE IF r.ret = -2 THEN SilentErrorResult(p.silent, idx)
                        ELSE r.ret
                 ev == [dir |-> dir, requires |-> requires, n |-> n,
                        name |-> opt.name, idx |-> idx,
                        setup_ret |-> r.ret, ret |-> out]
             IN [ret |-> out,
                 p |-> [s |-> r.s,
                        silent |-> IF r.ret = -2 THEN [p.silent EXCEPT ![idx] = TRUE]
                                   ELSE p.silent,
                        log |-> Append(p.log, ev)]]

----------------------------------------------------------------------------
(* Header *)

SigParseAddress(s, addrstr, flag) ==
    IF flag = 0
    THEN [s EXCEPT !.flags = IF addrstr = AddrAny THEN @ \cup {"SIG_FLAG_SRC_ANY"} ELSE @,
                   !.src = DetectParseAddress(addrstr)]
    ELSE [s EXCEPT !.flags = IF addrstr = AddrAny THEN @ \cup {"SIG_FLAG_DST_ANY"} ELSE @,
                   !.dst = DetectParseAddress(addrstr)]

SigParsePort(s, portstr, flag) ==
    IF flag = 0
    THEN [s EXCEPT !.flags = IF portstr = PortAny THEN @ \cup {"SIG_FLAG_SP_ANY"} ELSE @,
                   !.sp = DetectPortParse(portstr)]
    ELSE [s EXCEPT !.flags = IF portstr = PortAny THEN @ \cup {"SIG_FLAG_DP_ANY"} ELSE @,
                   !.dp = DetectPortParse(portstr)]

\* as SigParseBasics, but the header is interpreted in the scan pass too
SigParseBasicsBothPasses(s, rule, addrs_direction, scan_only) ==
    IF rule.direction \notin {"<>", "=>", "->"} THEN [ret |-> -1, s |-> s]
    ELSE IF scan_only THEN [ret |-> 0, s |-> s]
    ELSE [ret |-> 0,
          s |-> SigParsePort(SigParsePort(SigParseAddress(SigParseAddress(
                   IF rule.direction = "<>"
                   THEN [s EXCEPT !.init_flags = @ \cup {"SIG_FLAG_INIT_BIDIREC"}]
                   ELSE IF rule.direction = "=>"
                   THEN [s EXCEPT !.flags = @ \cup {"SIG_FLAG_TXBOTHDIR"}]
                   ELSE s,
                   rule.src, Xor(SIG_DIREC_SRC, addrs_direction)),
                   rule.dst, Xor(SIG_DIREC_DST, addrs_direction)),
                   rule.sp, Xor(SIG_DIREC_SRC, addrs_direction)),
                   rule.dp, Xor(SIG_DIREC_DST, addrs_direction))]

\* SigParseBasics: in scan mode the rule is only split into its tokens; the
\* header is interpreted in build mode.
SigParseBasics(s, rule, addrs_direction, scan_only) ==
    IF scan_only THEN [ret |-> 0, s |-> s]
    ELSE IF rule.direction \notin {"<>", "=>", "->"} THEN [ret |-> -1, s |-> s]
    ELSE LET s1 == IF rule.direction = "<>"
                   THEN [s EXCEPT !.init_flags = @ \cup {"SIG_FLAG_INIT_BIDIREC"}]
                   ELSE IF rule.direction = "=>"
                   THEN [s EXCEPT !.flags = @ \cup {"SIG_FLAG_TXBOTHDIR"}]
                   ELSE s
             s2 == SigParseAddress(s1, rule.src, Xor(SIG_DIREC_SRC, addrs_direction))
             s3 == SigParseAddress(s2, rule.dst, Xor(SIG_DIREC_DST, addrs_direction))
             s4 == SigParsePort(s3, rule.sp, Xor(SIG_DIREC_SRC, addrs_direction))
             s5 == SigParsePort(s4, rule.dp, Xor(SIG_DIREC_DST, addrs_direction))
         IN [ret |-> 0, s |-> s5]

\* the do-while loop of SigParse over the options: r is the result of
\* option n
RECURSIVE SigParseOptionsLoop(_, _, _, _, _)
SigParseOptionsLoop(r, opts, n, requires, dir) ==
    IF r.ret = 1
    THEN SigParseOptionsLoop(
             SigParseOptions(r.p, opts[n + 1], n + 1, n + 1 = Len(opts), requires, dir),
             opts, n + 1, requires, dir)
    ELSE r

\* SigParse after SigParseBasics returned b
SigParseBody(p, rule, addrs_direction, requires, b) ==
    IF b.ret < 0 THEN [ret |-> -1, p |-> p]
    ELSE IF Len(rule.opts) > 0
    THEN SigParseOptionsLoop([ret |-> 1, p |-> [p EXCEPT !.s = b.s]], rule.opts, 0,
                             requires, addrs_direction)
    ELSE [ret |-> b.ret, p |-> [p EXCEPT !.s = b.s]]

SigParse(p, rule, addrs_direction, requires) ==
    SigParseBody(p, rule, addrs_direction, requires,
                 SigParseBasics(p.s, rule, addrs_direction, requires))

----------------------------------------------------------------------------
(* SigInitHelper.  m is the machine state threaded through a call:         *)
(* [de, heap, log, aborted, ub].  The new Signature is the cell            *)
(* Len(heap)+1; on error it is freed.  BUG_ON(ret == -4) after the build   *)
(* pass aborts the process (aborted).                                      *)

\* SigValidateConsolidate: the outcome for this rule in this direction
SigValidateConsolidate(rule, dir) == rule.valid[dir + 1]

\* the error label: the half-built Signature is freed
SigInitHelperFail(m, de, p) ==
    [sig |-> NULL,
     m |-> [m EXCEPT !.de = [de EXCEPT !.sm_types_silent_error = p.silent],
                     !.heap = Append(m.heap, FreedSig), !.log = p.log]]

\* after a successful build pass: priority, internal id, default direction,
\* validation
SigInitHelperFinish(m, rule, dir, p) ==
    IF ~SigValidateConsolidate(rule, dir)
    THEN SigInitHelperFail(m, [m.de EXCEPT !.signum = @ + 1], p)
    ELSE [sig |-> Len(m.heap) + 1,
          m |-> [m EXCEPT
                   !.de = [m.de EXCEPT !.signum = @ + 1,
                                       !.sm_types_silent_error = p.silent],
                   !.heap = Append(m.heap,
                       [p.s EXCEPT
                          !.prio = IF @ = -1 THEN DETECT_DEFAULT_PRIO ELSE @,
                          !.iid = m.de.signum,
                          !.flags = IF @ \cap {"SIG_FLAG_TOSERVER", "SIG_FLAG_TOCLIENT"} = {}
                                    THEN @ \cup {"SIG_FLAG_TOSERVER", "SIG_FLAG_TOCLIENT"}
                                    ELSE @]),
                   !.log = p.log]]

\* after the build pass returned build
SigInitHelperBuilt(m, rule, dir, build) ==
    IF build.ret = -4
    THEN [sig |-> NULL,
          m |-> [m EXCEPT !.de.sm_types_silent_error = build.p.silent,
                          !.log = build.p.log, !.aborted = TRUE]]
    ELSE IF build.ret = -3
    THEN SigInitHelperFail(m, [m.de EXCEPT !.sigerror_silent = TRUE,
                                           !.sigerror_ok = TRUE], build.p)
    ELSE IF build.ret = -2
    THEN SigInitHelperFail(m, [m.de EXCEPT !.sigerror_silent = TRUE], build.p)
    ELSE IF build.ret < 0 THEN SigInitHelperFail(m, m.de, build.p)
    ELSE SigInitHelperFinish(m, rule, dir, build.p)

\* after the scan pass returned scan
SigInitHelperScanned(m, rule, dir, scan) ==
    IF scan.ret = -4
    THEN SigInitHelperFail(m, [m.de EXCEPT !.sigerror_silent = TRUE,
                                           !.sigerror_ok = TRUE,
                                           !.sigerror_requires = TRUE], scan.p)
    ELSE IF scan.ret < 0 THEN SigInitHelperFail(m, m.de, scan.p)
    ELSE IF scan.p.s.id = 0 THEN SigInitHelperFail(m, m.de, scan.p)
    ELSE SigInitHelperBuilt(m, rule, dir, SigParse(scan.p, rule, dir, FALSE))

SigInitHelper(m, rule, dir) ==
    SigInitHelperScanned(m, rule, dir,
        SigParse([s |-> [SigAlloc EXCEPT !.gid = 1],
                  silent |-> m.de.sm_types_silent_error,
                  log |-> m.log],
                 rule, dir, TRUE))

----------------------------------------------------------------------------
(* SigInitDo / SigInit *)

\* a check that compares the lists only when neither side is "any"
SigHasSameSourceAndDestinationNeitherAny(s) ==
    /\ (("SIG_FLAG_SP_ANY" \notin s.flags /\ "SIG_FLAG_DP_ANY" \notin s.flags)
            => DetectPortListsAreEqual(s.sp, s.dp))
    /\ (("SIG_FLAG_SRC_ANY" \notin s.flags /\ "SIG_FLAG_DST_ANY" \notin s.flags)
            => /\ DetectAddressListsAreEqual(s.src.ipv4_head, s.dst.ipv4_head)
               /\ DetectAddressListsAreEqual(s.src.ipv6_head, s.dst.ipv6_head))

SigHasSameSourceAndDestination(s) ==
    /\ (("SIG_FLAG_SP_ANY" \notin s.flags \/ "SIG_FLAG_DP_ANY" \notin s.flags)
            => DetectPortListsAreEqual(s.sp, s.dp))
    /\ (("SIG_FLAG_SRC_ANY" \notin s.flags \/ "SIG_FLAG_DST_ANY" \notin s.flags)
            => /\ DetectAddressListsAreEqual(s.src.ipv4_head, s.dst.ipv4_head)
               /\ DetectAddressListsAreEqual(s.src.ipv6_head, s.dst.ipv6_head))

\* an error label that restores signum but leaves sig allocated
SigInitDoErrorKeepSig(m, sig, oldsignum) ==
    [sig |-> NULL, m |-> [m EXCEPT !.de.signum = oldsignum]]

\* an error label that frees sig but leaves signum as the helpers advanced it
SigInitDoErrorKeepSignum(m, sig, oldsignum) ==
    [sig |-> NULL,
     m |-> [m EXCEPT !.heap = IF sig # NULL THEN SigFree(@, sig) ELSE @]]

\* the error label of SigInitDo: free sig, restore signum
SigInitDoError(m, sig, oldsignum) ==
    [sig |-> NULL,
     m |-> [m EXCEPT !.heap = IF sig # NULL THEN SigFree(@, sig) ELSE @,
                     !.de.signum = oldsignum]]

\* after the swapped second Signature of a pair was built (or not): h2
SigInitDoSecond(sig, h2, oldsignum) ==
    IF h2.m.aborted THEN h2
    ELSE IF h2.sig = NULL THEN SigInitDoError(h2.m, sig, oldsignum)
    ELSE [sig |-> sig, m |-> [h2.m EXCEPT !.heap[sig].next = h2.sig]]

\* after the first Signature was built (or not): h1
SigInitDoFirst(h1, rule, oldsignum) ==
    IF h1.m.aborted THEN h1
    ELSE IF h1.sig = NULL THEN SigInitDoError(h1.m, NULL, oldsignum)
    ELSE IF "SIG_FLAG_INIT_BIDIREC" \in h1.m.heap[h1.sig].init_flags
    THEN IF SigHasSameSourceAndDestination(h1.m.heap[h1.sig])
         THEN [sig |-> h1.sig,
               m |-> [h1.m EXCEPT !.heap[h1.sig].init_flags =
                                      @ \ {"SIG_FLAG_INIT_BIDIREC"}]]
         ELSE SigInitDoSecond(h1.sig, SigInitHelper(h1.m, rule, SIG_DIREC_SWITCHED),
                              oldsignum)
    ELSE h1

\* a SigInitDo that does not reset the sigerror flags
SigInitDoNoReset(m, rule) ==
    SigInitDoFirst(SigInitHelper(m, rule, SIG_DIREC_NORMAL), rule, m.de.signum)

\* reset the flags, remember signum, build the first Signature
SigInitDo(m, rule) ==
    SigInitDoFirst(
        SigInitHelper([m EXCEPT !.de.sigerror_ok = FALSE,
                                !.de.sigerror_silent = FALSE,
                                !.de.sigerror_requires = FALSE],
                      rule, SIG_DIREC_NORMAL),
        rule, m.de.signum)

SigInit(m, rule) == SigInitDo(m, rule)

----------------------------------------------------------------------------
(* The duplicate hash table: a set of SigDuplWrapper [s, s_prev].          *)

NoWrapper == [s |-> NULL, s_prev |-> NULL]

\* DetectParseDupSigCompareFunc: sid and gid match required
DetectParseDupSigCompareFunc(h, s1, s2) ==
    h[s1].id = h[s2].id /\ h[s1].gid = h[s2].gid

\* HashListTableLookup with a wrapper whose s is key; NoWrapper when the
\* lookup finds nothing.  The lookup reads s->id and s->gid of the key and
\* of the stored wrappers: a dead one among them is undefined behaviour,
\* reported as found = FALSE, defined = FALSE.
HashListTableLookup(table, h, key) ==
    IF ~(Live(h, key) /\ \A w \in table : Live(h, w.s))
    THEN [defined |-> FALSE, sw |-> NoWrapper]
    ELSE IF \E w \in table : DetectParseDupSigCompareFunc(h, w.s, key)
    THEN [defined |-> TRUE,
          sw |-> CHOOSE w \in table : DetectParseDupSigCompareFunc(h, w.s, key)]
    ELSE [defined |-> TRUE, sw |-> NoWrapper]

SetWrapper(table, w, nw) == (table \ {w}) \cup {nw}

DupResult(ret, de, h, ub) == [ret |-> ret, de |-> de, heap |-> h, ub |-> ub]

\* the list head's wrapper l gets sig as its s_prev; after a replacement
\* (ret = 2) only if it is not sig's own wrapper
DuplicateLinkHead(ret, de, h, sig, table, l) ==
    IF ~l.defined \/ l.sw = NoWrapper THEN DupResult(ret, de, h, TRUE)
    ELSE IF ret = 2 /\ l.sw.s = sig
    THEN DupResult(ret, [de EXCEPT !.dup_sig_hash_table = table], h, FALSE)
    ELSE DupResult(ret, [de EXCEPT !.dup_sig_hash_table =
                             SetWrapper(table, l.sw, [l.sw EXCEPT !.s_prev = sig])],
                   h, FALSE)

\* sig is not a duplicate: add its wrapper, and make sig the s_prev of the
\* wrapper of the current list head
DuplicateInsert(de, h, sig, table) ==
    IF de.sig_list = NULL
    THEN DupResult(0, [de EXCEPT !.dup_sig_hash_table = table], h, FALSE)
    ELSE DuplicateLinkHead(0, de, h, sig, table,
                           HashListTableLookup(table, h, de.sig_list))

\* a link update that forgets that a bidirectional predecessor links through
\* its second node
PrevLinkNodeFirstOnly(h, s_prev) == s_prev

\* where the predecessor's link to the old rule lives: the second node of a
\* bidirectional predecessor, else the predecessor itself
PrevLinkNode(h, s_prev) ==
    IF "SIG_FLAG_INIT_BIDIREC" \in h[s_prev].init_flags THEN h[s_prev].next ELSE s_prev

\* the first node after the old rule (sw_temp.s)
OldSuccessor(h, old) ==
    IF "SIG_FLAG_INIT_BIDIREC" \in h[old].init_flags THEN h[h[old].next].next
    ELSE h[old].next

\* the memory after the old rule was unlinked from its predecessor and its
\* second node, if any, freed
UnlinkOld(h, old, prev, succ) ==
    IF "SIG_FLAG_INIT_BIDIREC" \in h[old].init_flags
    THEN SigFree(IF prev = NULL THEN h ELSE [h EXCEPT ![PrevLinkNode(h, prev)].next = succ],
                 h[old].next)
    ELSE IF prev = NULL THEN h ELSE [h EXCEPT ![PrevLinkNode(h, prev)].next = succ]

\* as SuccessorPrev, but the successor's wrapper loses its s_prev
SuccessorPrevNone(sw_dup) == NULL

\* the s_prev the successor's wrapper takes over from the old rule
SuccessorPrev(sw_dup) == sw_dup.s_prev

\* the last part of a replacement: the old rule is freed, its wrapper now
\* holds sig, and the list head's wrapper gets sig as s_prev
DuplicateReplaceFinish(de, h, sig, sw_dup, table) ==
    IF de.sig_list = NULL
    THEN DupResult(2, [de EXCEPT !.dup_sig_hash_table =
                           SetWrapper(table, sw_dup, [s |-> sig, s_prev |-> NULL])],
                   h, FALSE)
    ELSE DuplicateLinkHead(2, de, h, sig,
             SetWrapper(table, sw_dup, [s |-> sig, s_prev |-> NULL]),
             HashListTableLookup(SetWrapper(table, sw_dup, [s |-> sig, s_prev |-> NULL]),
                                 h, de.sig_list))

\* the wrapper n of the successor takes over the old rule's s_prev; h is the
\* memory after the unlink
DuplicateReplaceNext(de, h, sig, sw_dup, succ, n) ==
    IF succ # NULL /\ (~n.defined \/ n.sw = NoWrapper)
    THEN DupResult(2, de, h, TRUE)
    ELSE DuplicateReplaceFinish(de, SigFree(h, sw_dup.s), sig, sw_dup,
             IF succ # NULL
             THEN SetWrapper(de.dup_sig_hash_table, n.sw,
                             [n.sw EXCEPT !.s_prev = SuccessorPrev(sw_dup)])
             ELSE de.dup_sig_hash_table)

\* the old rule is unlinked; succ is the first node after it
DuplicateReplaceUnlink(de, h, sig, sw_dup, succ) ==
    DuplicateReplaceNext(
        [de EXCEPT !.sig_list = IF sw_dup.s_prev = NULL THEN succ ELSE @],
        UnlinkOld(h, sw_dup.s, sw_dup.s_prev, succ), sig, sw_dup, succ,
        IF succ = NULL THEN [defined |-> TRUE, sw |-> NoWrapper]
        ELSE HashListTableLookup(de.dup_sig_hash_table,
                                 UnlinkOld(h, sw_dup.s, sw_dup.s_prev, succ), succ))

\* sig replaces the older revision held by sw_dup: unlink and free the old
\* rule, repoint the wrappers
DuplicateReplace(de, h, sig, sw_dup) ==
    IF \/ "SIG_FLAG_INIT_BIDIREC" \in h[sw_dup.s].init_flags /\ ~Live(h, h[sw_dup.s].next)
       \/ sw_dup.s_prev # NULL /\ ~Live(h, sw_dup.s_prev)
       \/ sw_dup.s_prev # NULL /\ Live(h, sw_dup.s_prev)
             /\ ~Live(h, PrevLinkNode(h, sw_dup.s_prev))
    THEN DupResult(2, de, h, TRUE)
    ELSE DuplicateReplaceUnlink(de, h, sig, sw_dup, OldSuccessor(h, sw_dup.s))

\* a comparison that keeps the installed rule only when it is the older one
RevIsNewerOrSame(h, sig, installed) == h[sig].rev >= h[installed].rev

\* a comparison that lets a rule of the installed revision replace it
RevIsOlder(h, sig, installed) == h[sig].rev < h[installed].rev

\* the revision test: the incoming rule is dropped unless it is newer
RevIsOlderOrSame(h, sig, installed) == h[sig].rev <= h[installed].rev

\* after the lookup of sig's (gid, sid) returned l
DuplicateFound(de, h, sig, l) ==
    IF ~l.defined THEN DupResult(0, de, h, TRUE)
    ELSE IF l.sw = NoWrapper
    THEN DuplicateInsert(de, h, sig,
                         de.dup_sig_hash_table \cup {[s |-> sig, s_prev |-> NULL]})
    ELSE IF RevIsOlderOrSame(h, sig, l.sw.s) THEN DupResult(1, de, h, FALSE)
    ELSE DuplicateReplace(de, h, sig, l.sw)

DetectEngineSignatureIsDuplicate(de, h, sig) ==
    DuplicateFound(de, h, sig, HashListTableLookup(de.dup_sig_hash_table, h, sig))

----------------------------------------------------------------------------
(* DetectEngineAppendSig *)

\* the error label: free the second Signature of a pair, then the first
AppendSigError(h, sig) ==
    SigFree(IF h[sig].next # NULL THEN SigFree(h, h[sig].next) ELSE h, sig)

\* prepend sig (one node or a pair) to sig_list
AppendSigLink(m, de, h, sig) ==
    IF "SIG_FLAG_INIT_BIDIREC" \in h[sig].init_flags
    THEN [m EXCEPT !.de = [de EXCEPT !.sig_list = sig],
                   !.heap = [h EXCEPT ![h[sig].next].next = de.sig_list]]
    ELSE [m EXCEPT !.de = [de EXCEPT !.sig_list = sig],
                   !.heap = [h EXCEPT ![sig].next = de.sig_list]]

\* the Signatures SigInit returned, as it returned them: none, one, or a pair
SigChain(h, sig) ==
    IF sig = NULL THEN <<>>
    ELSE IF h[sig].next = NULL THEN <<h[sig]>>
    ELSE <<h[sig], h[h[sig].next]>>

\* after the duplicate check returned d; i is what SigInit returned
AppendSigChecked(i, d) ==
    IF d.ub
    THEN [ret |-> NULL, sig |-> i.sig, chain |-> SigChain(i.m.heap, i.sig),
          dup_sig |-> d.ret,
          m |-> [i.m EXCEPT !.de = d.de, !.heap = d.heap, !.ub = TRUE]]
    ELSE IF d.ret = 1
    THEN [ret |-> NULL, sig |-> i.sig, chain |-> SigChain(i.m.heap, i.sig),
          dup_sig |-> 1,
          m |-> [i.m EXCEPT !.heap = AppendSigError(d.heap, i.sig)]]
    ELSE IF "SIG_FLAG_INIT_BIDIREC" \in d.heap[i.sig].init_flags
            /\ d.heap[i.sig].next = NULL
    THEN [ret |-> NULL, sig |-> i.sig, chain |-> SigChain(i.m.heap, i.sig),
          dup_sig |-> d.ret,
          m |-> [i.m EXCEPT !.de = d.de, !.heap = AppendSigError(d.heap, i.sig)]]
    ELSE [ret |-> i.sig, sig |-> i.sig, chain |-> SigChain(i.m.heap, i.sig),
          dup_sig |-> d.ret,
          m |-> AppendSigLink(i.m, d.de, d.heap, i.sig)]

\* after SigInit returned i
AppendSigParsed(i) ==
    IF i.m.aborted \/ i.sig = NULL
    THEN [ret |-> NULL, sig |-> NULL, chain |-> <<>>, dup_sig |-> -1, m |-> i.m]
    ELSE AppendSigChecked(i, DetectEngineSignatureIsDuplicate(i.m.de, i.m.heap, i.sig))

\* the whole call on machine state m; ret is the returned pointer, sig and
\* chain what SigInit returned
DetectEngineAppendSigDo(m, rule) == AppendSigParsed(SigInit(m, rule))

----------------------------------------------------------------------------
(* Reading sig_list *)

RECURSIVE Walk(_, _, _)
Walk(h, a, fuel) ==
    IF a = NULL \/ fuel = 0 \/ ~Live(h, a) THEN <<>>
    ELSE <<a>> \o Walk(h, h[a].next, fuel - 1)

\* the addresses of the nodes of sig_list, head first
ListNodes(h, de) == Walk(h, de.sig_list, Len(h) + 1)

\* the nodes of sig_list that carry the key (gid, sid)
NodesOfKey(h, de, gid, sid) ==
    SelectSeq(ListNodes(h, de), LAMBDA a : h[a].gid = gid /\ h[a].id = sid)

----------------------------------------------------------------------------
(* Rules under test.  A rule is the text handed to DetectEngineAppendSig:  *)
(* direction token, source, destination, ports, the options in order, and  *)
(* for each direction whether the finished signature passes validation.    *)

Opt(name, val, ret) == [name |-> name, val |-> val, ret |-> ret]

Rule(direction, src, dst, sp, dp, opts, valid) ==
    [direction |-> direction, src |-> src, dst |-> dst, sp |-> sp, dp |-> dp,
     opts |-> opts, valid |-> valid]

Addr1 == << <<4, 1>> >>

Keys == {<<1, s>> : s \in 1..MaxSid} \cup {<<2, 1>>}

\* "alert tcp any any -> 1 any (sid:s; gid:g; rev:r;)", gid omitted when 1
EngineRule(gid, sid, rev, direction) ==
    Rule(direction, AddrAny, Addr1, PortAny, PortAny,
         <<Opt("sid", sid, 0)>>
            \o (IF gid = 1 THEN <<>> ELSE <<Opt("gid", gid, 0)>>)
            \o <<Opt("rev", rev, 0)>>,
         <<TRUE, TRUE>>)

\* rules SigInit rejects: no sid; a pair whose swapped half fails validation
FailRules ==
    {Rule("->", AddrAny, Addr1, PortAny, PortAny, <<Opt("rev", 1, 0)>>, <<TRUE, TRUE>>),
     Rule("<>", AddrAny, Addr1, PortAny, PortAny, <<Opt("sid", 1, 0)>>, <<TRUE, FALSE>>)}

EngineRules ==
    {EngineRule(k[1], k[2], r, d) : k \in Keys, r \in 1..MaxRev, d \in {"->", "<>"}}
        \cup FailRules

\* written address and port lists for the header of a <> rule
AddrStrs == {AddrAny, Addr1, << <<4, 1>>, <<4, 2>> >>, << <<4, 2>>, <<4, 1>> >>,
             << <<4, 1>>, <<6, 1>> >>, << <<6, 1>>, <<4, 1>> >>}

PortStrs == {PortAny, <<80, 81>>, <<81, 80>>}

HeaderRules ==
    {Rule("<>", a, b, p, q, <<Opt("sid", s, 0)>>, <<TRUE, TRUE>>) :
        a \in AddrStrs, b \in AddrStrs, p \in PortStrs, q \in PortStrs, s \in {1, 2}}

\* the options a rule body is made of, with the code the setup reports
OptChoices ==
    {Opt("sid", 1, 0), Opt("requires", 0, 0), Opt("requires", 0, -4),
     Opt("kwa", 0, 0), Opt("kwa", 0, -1), Opt("kwa", 0, -2), Opt("kwa", 0, -3),
     Opt("kwb", 0, -2), Opt("kwb", 0, -4), Opt("bogus", 0, 0)}

OptLists == UNION {[1..n -> OptChoices] : n \in 0..MaxOpts}

OptionRules ==
    {Rule(d, AddrAny, Addr1, PortAny, PortAny, o, v) :
        d \in {"->", "<>"}, o \in OptLists, v \in {<<TRUE, TRUE>>}}

ValidationRules ==
    {Rule(d, AddrAny, Addr1, PortAny, PortAny, <<Opt("sid", 1, 0)>>, v) :
        d \in {"->", "<>", "<-"}, v \in {<<TRUE, FALSE>>, <<FALSE, TRUE>>}}

\* rules with a direction that is none: with requirements that are unmet or
\* met, and with a keyword of the build pass
BadHeaderRules ==
    {Rule("<-", AddrAny, Addr1, PortAny, PortAny, o, <<TRUE, TRUE>>) :
        o \in {<<Opt("requires", 0, -4), Opt("sid", 1, 0)>>,
               <<Opt("requires", 0, 0), Opt("sid", 1, 0)>>,
               <<Opt("sid", 1, 0), Opt("kwa", 0, 0)>>,
               <<Opt("kwa", 0, 0)>>}}

ParseRules == HeaderRules \cup OptionRules \cup ValidationRules \cup BadHeaderRules

\* rule bodies around keywords whose setup reports SilentError
SilentBodies ==
    {<<Opt("sid", 1, 0), Opt("kwa", 0, -2)>>, <<Opt("sid", 1, 0), Opt("kwb", 0, -2)>>,
     <<Opt("sid", 1, 0), Opt("kwa", 0, 0)>>, <<Opt("sid", 1, 0), Opt("kwa", 0, -1)>>,
     <<Opt("sid", 1, 0), Opt("kwa", 0, -3)>>, <<Opt("kwa", 0, -2)>>,
     <<Opt("requires", 0, -4), Opt("kwa", 0, -2)>>,
     <<Opt("sid", 2, 0), Opt("kwb", 0, 0), Opt("kwa", 0, -2)>>}

SilentRules ==
    {Rule(d, AddrAny, Addr1, PortAny, PortAny, o, <<TRUE, TRUE>>) :
        d \in {"->", "<>"}, o \in SilentBodies}

----------------------------------------------------------------------------
(* A Signature under construction: the classical SigMatch lists, the       *)
(* sticky buffers and the app-layer protocol.  SigMatch cells live in       *)
(* sm_mem, addressed 1..Len(sm_mem); NULL is 0.  buffers[x] of the model is *)
(* buffers[x - 1] of the code, alprotos[i] is alprotos[i - 1].              *)

DETECT_SM_LIST_MATCH == 0
DETECT_SM_LIST_PMATCH == 1
DETECT_SM_LIST_MAX == 7
DETECT_SM_LIST_NOTSET == 2147483647
ALPROTO_UNKNOWN == 0
ALPROTO_FAILED == 1
SIG_ALPROTO_MAX == 4

\* the fields of SigAlloc's Signature that the keyword setups work on
SigAllocInitData ==
    [alproto |-> ALPROTO_UNKNOWN,
     flags |-> {},
     file_flags |-> {},
     type |-> "SIG_TYPE_NOT_SET",
     detect_table |-> "DETECT_TABLE_NOT_SET",
     app_progress_hook |-> 0,
     action |-> 0,
     action_scope |-> "ACTION_SCOPE_AUTO",
     proto |-> [proto |-> {}, flags |-> {}],
     sm_arrays |-> [l \in 0..(DETECT_SM_LIST_MAX - 1) |-> <<>>],
     init_data |->
        [alprotos |-> [i \in 1..SIG_ALPROTO_MAX |-> ALPROTO_UNKNOWN],
         smlists |-> [l \in 0..(DETECT_SM_LIST_MAX - 1) |-> NULL],
         smlists_tail |-> [l \in 0..(DETECT_SM_LIST_MAX - 1) |-> NULL],
         buffers |-> <<>>,
         buffers_size |-> 8,
         curbuf |-> NULL,
         list |-> DETECT_SM_LIST_NOTSET,
         sm_cnt |-> 0,
         max_content_list_id |-> 0,
         init_flags |-> {},
         negated |-> FALSE,
         prefilter_sm |-> NULL,
         mpm_sm |-> NULL,
         has_possible_prefilter |-> FALSE,
         firewall_rule |-> FALSE,
         hook |-> [type |-> "SIGNATURE_HOOK_TYPE_NOT_SET",
                   ph |-> "SIGNATURE_HOOK_PKT_NOT_SET",
                   alproto |-> ALPROTO_UNKNOWN, app_progress |-> 0, sm_list |-> 0]]]

\* a fresh SigMatch; attached records whether it hangs in a list of the
\* signature
SigMatchAlloc == [type |-> "", ctx |-> {}, idx |-> 0, next |-> NULL, prev |-> NULL,
                  attached |-> FALSE]

MaxOf(a, b) == IF a >= b THEN a ELSE b

\* result of an operation on the signature: return value, signature, cells
SigRes(ret, s, mem) == [ret |-> ret, s |-> s, mem |-> mem]


\* as SignatureInitDataBufferCheckExpand, but a vector of 64 slots is used up
\* to its last slot but one
SignatureInitDataBufferCheckExpandUsesSlots(d) ==
    IF d.buffers_size >= 64 /\ Len(d.buffers) + 1 >= d.buffers_size
    THEN [ret |-> -1, buffers_size |-> d.buffers_size]
    ELSE IF Len(d.buffers) + 1 = d.buffers_size
    THEN [ret |-> 0, buffers_size |-> d.buffers_size + 8]
    ELSE [ret |-> 0, buffers_size |-> d.buffers_size]

\* as SignatureInitDataBufferCheckExpand, but the vector only grows once it is
\* full
SignatureInitDataBufferCheckExpandWhenFull(d) ==
    IF d.buffers_size >= 64 THEN [ret |-> -1, buffers_size |-> d.buffers_size]
    ELSE IF Len(d.buffers) = d.buffers_size
    THEN [ret |-> 0, buffers_size |-> d.buffers_size + 8]
    ELSE [ret |-> 0, buffers_size |-> d.buffers_size]

SignatureInitDataBufferCheckExpand(d) ==
    IF d.buffers_size >= 64 THEN [ret |-> -1, buffers_size |-> d.buffers_size]
    ELSE IF Len(d.buffers) + 1 = d.buffers_size
    THEN [ret |-> 0, buffers_size |-> d.buffers_size + 8]
    ELSE [ret |-> 0, buffers_size |-> d.buffers_size]

\* the idx the next attached SigMatch gets
NextIdx(d) == d.sm_cnt


\* sm_cnt left as it was
SmCntSame(d) == d.sm_cnt

\* sm_cnt after a SigMatch took idx
SmCntAfter(d) == d.sm_cnt + 1

\* list < DETECT_SM_LIST_MAX: link new at the tail of smlists[list]
AppendClassical(s, mem, new, list) ==
    IF s.init_data.smlists[list] = NULL
    THEN SigRes(new,
                [s EXCEPT !.init_data.smlists[list] = new,
                          !.init_data.smlists_tail[list] = new,
                          !.init_data.sm_cnt = SmCntAfter(s.init_data)],
                [mem EXCEPT ![new].next = NULL, ![new].prev = NULL,
                            ![new].idx = NextIdx(s.init_data),
                            ![new].attached = TRUE])
    ELSE SigRes(new,
                [s EXCEPT !.init_data.smlists_tail[list] = new,
                          !.init_data.sm_cnt = SmCntAfter(s.init_data)],
                [mem EXCEPT ![s.init_data.smlists_tail[list]].next = new,
                            ![new].prev = s.init_data.smlists_tail[list],
                            ![new].next = NULL,
                            ![new].idx = NextIdx(s.init_data),
                            ![new].attached = TRUE])


\* as FindReusable, but a multi-capable buffer is taken as well
FindReusableAny(d, list) ==
    IF \E x \in 1..Len(d.buffers) : d.buffers[x].id = list
    THEN CHOOSE x \in 1..Len(d.buffers) :
            /\ d.buffers[x].id = list
            /\ \A y \in 1..(x - 1) : d.buffers[y].id # list
    ELSE NULL

\* the first buffer with id list that is not multi-capable, NULL if none
FindReusable(d, list) ==
    IF \E x \in 1..Len(d.buffers) : d.buffers[x].id = list /\ ~d.buffers[x].multi_capable
    THEN CHOOSE x \in 1..Len(d.buffers) :
            /\ d.buffers[x].id = list /\ ~d.buffers[x].multi_capable
            /\ \A y \in 1..(x - 1) : ~(d.buffers[y].id = list /\ ~d.buffers[y].multi_capable)
    ELSE NULL

\* curbuf after the search for a buffer to reuse
CurbufAfterSearch(d, list) ==
    IF d.curbuf # NULL /\ d.buffers[d.curbuf].id # list /\ FindReusable(d, list) # NULL
    THEN FindReusable(d, list)
    ELSE d.curbuf

\* link new at the tail of curbuf
AppendToCurbuf(s, mem, new) ==
    SigRes(new,
           [s EXCEPT !.init_data.buffers[s.init_data.curbuf].head =
                         IF @ = NULL THEN new ELSE @,
                     !.init_data.buffers[s.init_data.curbuf].tail = new,
                     !.init_data.sm_cnt = SmCntAfter(s.init_data)],
           IF s.init_data.buffers[s.init_data.curbuf].tail # NULL
           THEN [mem EXCEPT ![s.init_data.buffers[s.init_data.curbuf].tail].next = new,
                            ![new].prev = s.init_data.buffers[s.init_data.curbuf].tail,
                            ![new].idx = NextIdx(s.init_data),
                            ![new].attached = TRUE]
           ELSE [mem EXCEPT ![new].prev = NULL,
                            ![new].idx = NextIdx(s.init_data),
                            ![new].attached = TRUE])

\* list >= DETECT_SM_LIST_MAX, after list was unset and curbuf searched: s
AppendSticky(s, mem, new, list, expand) ==
    IF s.init_data.curbuf # NULL /\ s.init_data.buffers[s.init_data.curbuf].id = list
    THEN AppendToCurbuf(s, mem, new)
    ELSE IF expand.ret < 0
    THEN SigRes(NULL, s, SubSeq(mem, 1, Len(mem) - 1))
    ELSE AppendToCurbuf(
            [s EXCEPT !.init_data.buffers_size = expand.buffers_size,
                      !.init_data.buffers =
                          Append(@, [id |-> list, head |-> NULL, tail |-> NULL,
                                     sm_init |-> TRUE, multi_capable |-> FALSE,
                                     only_tc |-> "SIG_FLAG_INIT_FORCE_TOCLIENT"
                                                    \in s.init_data.init_flags,
                                     only_ts |-> "SIG_FLAG_INIT_FORCE_TOSERVER"
                                                    \in s.init_data.init_flags]),
                      !.init_data.curbuf = Len(s.init_data.buffers) + 1],
            mem, new)

\* new is the cell SigMatchAlloc returned, already in mem
AppendAllocated(s, mem, new, list) ==
    IF list < DETECT_SM_LIST_MAX
    THEN AppendClassical(s, mem, new, list)
    ELSE AppendSticky(
            [s EXCEPT !.init_data.list =
                          IF @ # DETECT_SM_LIST_NOTSET /\ list # @
                          THEN DETECT_SM_LIST_NOTSET ELSE @,
                      !.init_data.curbuf = CurbufAfterSearch(s.init_data, list)],
            mem, new, list, SignatureInitDataBufferCheckExpand(s.init_data))

\* alloc_ok: whether SigMatchAlloc got memory
SCSigMatchAppendSMToList(s, mem, type, ctx, list, alloc_ok) ==
    IF ~alloc_ok THEN SigRes(NULL, s, mem)
    ELSE AppendAllocated(
            [s EXCEPT !.init_data.max_content_list_id =
                          IF type = "DETECT_CONTENT" THEN MaxOf(@, list) ELSE @],
            Append(mem, [SigMatchAlloc EXCEPT !.type = type, !.ctx = ctx]),
            Len(mem) + 1, list)


\* as UnlinkNeighbours, but the successor keeps its prev
UnlinkNeighboursPrevOnly(mem, sm) ==
    IF mem[sm].prev # NULL
    THEN [mem EXCEPT ![mem[sm].prev].next = mem[sm].next] ELSE mem

\* sm->prev->next = sm->next and sm->next->prev = sm->prev, where not NULL
UnlinkNeighbours(mem, sm) ==
    LET m1 == IF mem[sm].prev # NULL
              THEN [mem EXCEPT ![mem[sm].prev].next = mem[sm].next] ELSE mem
    IN  IF m1[sm].next # NULL
        THEN [m1 EXCEPT ![m1[sm].next].prev = m1[sm].prev] ELSE m1

SigMatchRemoveSMFromList(s, mem, sm, sm_list) ==
    SigRes(0,
           [s EXCEPT !.init_data.smlists[sm_list] = IF sm = @ THEN mem[sm].next ELSE @,
                     !.init_data.smlists_tail[sm_list] = IF sm = @ THEN mem[sm].prev ELSE @],
           [UnlinkNeighbours(mem, sm) EXCEPT ![sm].attached = FALSE])

\* walk back from sm to the nearest SigMatch of the type, NULL if none
RECURSIVE SigMatchGetLastSMByType(_, _, _)
SigMatchGetLastSMByType(mem, sm, type) ==
    IF sm = NULL THEN NULL
    ELSE IF mem[sm].type = type THEN sm
    ELSE SigMatchGetLastSMByType(mem, mem[sm].prev, type)

\* of the candidates (NULL for none) the one with the largest idx
LargestIdx(mem, cands) ==
    IF cands \ {NULL} = {} THEN NULL
    ELSE CHOOSE a \in cands \ {NULL} : \A b \in cands \ {NULL} : mem[b].idx <= mem[a].idx

\* from the list tail sm_list, the last SigMatch of one of the types
DetectGetLastSMByListPtr(mem, sm_list, types) ==
    LargestIdx(mem, {SigMatchGetLastSMByType(mem, sm_list, ty) : ty \in types})

\* for a sticky list id the buffers are gone through, for a classical one the
\* list with the id
DetectGetLastSMByListId(s, mem, list_id, types) ==
    IF list_id >= DETECT_SM_LIST_MAX
    THEN LargestIdx(mem,
            {SigMatchGetLastSMByType(mem, s.init_data.buffers[x].tail, ty) :
                x \in 1..Len(s.init_data.buffers), ty \in types})
    ELSE DetectGetLastSMByListPtr(mem, s.init_data.smlists_tail[list_id], types)

\* the buffers and the classical lists init_data->list lets through
DetectGetLastSMFromLists(s, mem, types) ==
    LargestIdx(mem,
        {SigMatchGetLastSMByType(mem, s.init_data.buffers[x].tail, ty) :
            x \in {y \in 1..Len(s.init_data.buffers) :
                      \/ s.init_data.list = DETECT_SM_LIST_NOTSET
                      \/ s.init_data.list = s.init_data.buffers[y].id},
            ty \in types}
        \cup
        {SigMatchGetLastSMByType(mem, s.init_data.smlists_tail[l], ty) :
            l \in {k \in 0..(DETECT_SM_LIST_MAX - 1) :
                      /\ s.init_data.smlists[k] # NULL
                      /\ \/ s.init_data.list = DETECT_SM_LIST_NOTSET
                         \/ k = s.init_data.list},
            ty \in types})

\* the last content of the lists that support MPM; mpm: the ids
\* DetectEngineBufferTypeSupportsMpmGetById accepts
DetectGetLastSMFromMpmLists(s, mem, mpm) ==
    LargestIdx(mem,
        {DetectGetLastSMByListPtr(mem, s.init_data.buffers[x].tail, {"DETECT_CONTENT"}) :
            x \in {y \in 1..Len(s.init_data.buffers) : s.init_data.buffers[y].id \in mpm}}
        \cup
        {SigMatchGetLastSMByType(mem, s.init_data.smlists_tail[l], "DETECT_CONTENT") :
            l \in {k \in 0..(DETECT_SM_LIST_MAX - 1) : k \in mpm}})

\* of the tails of all buffers and classical lists the one with the largest idx
DetectGetLastSM(s, mem) ==
    LargestIdx(mem,
        {s.init_data.buffers[x].tail : x \in 1..Len(s.init_data.buffers)}
        \cup {s.init_data.smlists_tail[l] : l \in 0..(DETECT_SM_LIST_MAX - 1)})

\* move sm from the list (src_head, src_tail) to the tail of (dst_head,
\* dst_tail)
SigMatchTransferSigMatchAcrossLists(mem, sm, src_head, src_tail, dst_head, dst_tail) ==
    [src_head |-> IF sm = src_head THEN mem[sm].next ELSE src_head,
     src_tail |-> IF sm = src_tail THEN mem[sm].prev ELSE src_tail,
     dst_head |-> IF dst_head = NULL THEN sm ELSE dst_head,
     dst_tail |-> sm,
     mem |-> IF dst_head = NULL
             THEN [UnlinkNeighbours(mem, sm) EXCEPT ![sm].next = NULL, ![sm].prev = NULL]
             ELSE [UnlinkNeighbours(mem, sm) EXCEPT ![dst_tail].next = sm,
                                                    ![sm].prev = dst_tail,
                                                    ![sm].next = NULL]]

\* external collaborators on app-layer protocols
ALPROTO_HTTP1 == 2
ALPROTO_TLS == 3
ALPROTO_QUIC == 4
ALPROTO_HTTP == 5
ALPROTO_HTTP2 == 6

AppProtoIsValid(a) == a > ALPROTO_FAILED

AppProtoEquals(sigproto, alproto) ==
    sigproto = alproto \/ (sigproto = ALPROTO_HTTP /\ alproto = ALPROTO_HTTP1)

AppProtoCommon(sigproto, alproto) ==
    IF sigproto = alproto THEN alproto
    ELSE IF sigproto = ALPROTO_HTTP /\ alproto = ALPROTO_HTTP1 THEN ALPROTO_HTTP1
    ELSE IF sigproto = ALPROTO_HTTP1 /\ alproto = ALPROTO_HTTP THEN ALPROTO_HTTP1
    ELSE ALPROTO_FAILED

\* clear or set the RELATIVE_NEXT flag in the ctx of pm, if there is one
SetRelativeNext(mem, pm, on) ==
    IF pm = NULL THEN mem
    ELSE [mem EXCEPT ![pm].ctx = IF on THEN @ \cup {"RELATIVE_NEXT"}
                                 ELSE @ \ {"RELATIVE_NEXT"}]

\* the within/distance part of the modifier setup: the content before sm no
\* longer has a relative successor, the last one of the target buffer gets one
ModifierRelativeFlags(s, mem, sm, sm_list) ==
    IF mem[sm].ctx \cap {"DETECT_CONTENT_WITHIN", "DETECT_CONTENT_DISTANCE"} = {}
    THEN mem
    ELSE LET m1 == SetRelativeNext(mem,
                      DetectGetLastSMByListPtr(mem, mem[sm].prev,
                                               {"DETECT_CONTENT", "DETECT_PCRE"}),
                      FALSE)
         IN  IF s.init_data.curbuf # NULL
                /\ s.init_data.buffers[s.init_data.curbuf].id = sm_list
             THEN SetRelativeNext(m1,
                      DetectGetLastSMByListPtr(m1,
                          s.init_data.buffers[s.init_data.curbuf].tail,
                          {"DETECT_CONTENT", "DETECT_PCRE"}),
                      TRUE)
             ELSE m1

\* as FindBuffer, but no buffer is ever found
FindBufferNone(d, sm_list) == NULL

\* the first buffer with id sm_list, NULL if none
FindBuffer(d, sm_list) ==
    IF \E x \in 1..Len(d.buffers) : d.buffers[x].id = sm_list
    THEN CHOOSE x \in 1..Len(d.buffers) :
            /\ d.buffers[x].id = sm_list
            /\ \A y \in 1..(x - 1) : d.buffers[y].id # sm_list
    ELSE NULL

\* the transfer of sm from the PMATCH list to curbuf, s.init_data.curbuf set
ModifierTransfer(s, mem, sm, sm_list, tr) ==
    SigRes(0,
           [s EXCEPT !.init_data.smlists[DETECT_SM_LIST_PMATCH] = tr.src_head,
                     !.init_data.smlists_tail[DETECT_SM_LIST_PMATCH] = tr.src_tail,
                     !.init_data.buffers[s.init_data.curbuf].head = tr.dst_head,
                     !.init_data.buffers[s.init_data.curbuf].tail = tr.dst_tail,
                     !.init_data.max_content_list_id =
                         IF mem[sm].type = "DETECT_CONTENT" THEN MaxOf(@, sm_list) ELSE @],
           tr.mem)

\* with curbuf chosen
ModifierWithCurbuf(s, mem, sm, sm_list) ==
    ModifierTransfer(s, mem, sm, sm_list,
        SigMatchTransferSigMatchAcrossLists(mem, sm,
            s.init_data.smlists[DETECT_SM_LIST_PMATCH],
            s.init_data.smlists_tail[DETECT_SM_LIST_PMATCH],
            s.init_data.buffers[s.init_data.curbuf].head,
            s.init_data.buffers[s.init_data.curbuf].tail))

\* choose curbuf: keep it, reuse the buffer found, or open a new one
ModifierChooseBuffer(s, mem, sm, sm_list, found, expand) ==
    IF s.init_data.curbuf # NULL /\ s.init_data.buffers[s.init_data.curbuf].id = sm_list
    THEN ModifierWithCurbuf(s, mem, sm, sm_list)
    ELSE IF s.init_data.curbuf # NULL /\ s.init_data.buffers[s.init_data.curbuf].head = NULL
    THEN SigRes(-1, s, mem)
    ELSE IF s.init_data.curbuf # NULL /\ found # NULL
    THEN ModifierWithCurbuf([s EXCEPT !.init_data.curbuf = found], mem, sm, sm_list)
    ELSE IF expand.ret < 0 THEN SigRes(-1, s, mem)
    ELSE ModifierWithCurbuf(
            [s EXCEPT !.init_data.buffers_size = expand.buffers_size,
                      !.init_data.buffers =
                          Append(@, [id |-> sm_list, head |-> NULL, tail |-> NULL,
                                     sm_init |-> FALSE, multi_capable |-> FALSE,
                                     only_tc |-> FALSE, only_ts |-> FALSE]),
                      !.init_data.curbuf = Len(s.init_data.buffers) + 1],
            mem, sm, sm_list)

\* with sm the last content of the PMATCH list
ModifierWithContent(s, mem, sm, sm_list, alproto) ==
    IF sm = NULL THEN SigRes(-1, s, mem)
    ELSE IF "DETECT_CONTENT_RAWBYTES" \in mem[sm].ctx THEN SigRes(-1, s, mem)
    ELSE IF "DETECT_CONTENT_REPLACE" \in mem[sm].ctx THEN SigRes(-1, s, mem)
    ELSE ModifierChooseBuffer(
            [s EXCEPT !.alproto = alproto, !.flags = @ \cup {"SIG_FLAG_APPLAYER"}],
            ModifierRelativeFlags(s, mem, sm, sm_list), sm, sm_list,
            FindBuffer(s.init_data, sm_list),
            SignatureInitDataBufferCheckExpand(s.init_data))

\* arg: the text given to the modifier keyword ("" for none)
DetectEngineContentModifierBufferSetup(s, mem, arg, sm_list, alproto) ==
    IF arg # "" THEN SigRes(-1, s, mem)
    ELSE IF s.init_data.list # DETECT_SM_LIST_NOTSET THEN SigRes(-1, s, mem)
    ELSE IF s.alproto # ALPROTO_UNKNOWN /\ ~AppProtoEquals(s.alproto, alproto)
    THEN SigRes(-1, s, mem)
    ELSE ModifierWithContent(s, mem,
            DetectGetLastSMByListId(s, mem, DETECT_SM_LIST_PMATCH, {"DETECT_CONTENT"}),
            sm_list, alproto)

\* app-layer protocols whose detection is disabled have no name
AppLayerProtoDetectGetProtoName(alproto) ==
    IF alproto = ALPROTO_QUIC THEN NULL ELSE alproto

\* the stored alprotos, as a set
StoredAlprotos(s) ==
    {s.init_data.alprotos[i] : i \in 1..SIG_ALPROTO_MAX} \ {ALPROTO_UNKNOWN}

\* s after the stored multi-set, if any, was given up for a single alproto
SetAppProtoCommon(s, alproto) ==
    IF s.alproto # ALPROTO_UNKNOWN /\ AppProtoCommon(s.alproto, alproto) = ALPROTO_FAILED
    THEN [ret |-> -1, s |-> s]
    ELSE IF AppLayerProtoDetectGetProtoName(
                IF s.alproto # ALPROTO_UNKNOWN THEN AppProtoCommon(s.alproto, alproto)
                ELSE alproto) = NULL
    THEN [ret |-> -1, s |-> s]
    ELSE [ret |-> 0,
          s |-> [s EXCEPT !.alproto = IF @ # ALPROTO_UNKNOWN
                                      THEN AppProtoCommon(@, alproto) ELSE alproto,
                          !.flags = @ \cup {"SIG_FLAG_APPLAYER"}]]

SCDetectSignatureSetAppProto(s, alproto) ==
    IF ~AppProtoIsValid(alproto) THEN [ret |-> -1, s |-> s]
    ELSE IF s.init_data.alprotos[1] # ALPROTO_UNKNOWN
    THEN IF \E i \in 1..SIG_ALPROTO_MAX : s.init_data.alprotos[i] = alproto
         THEN SetAppProtoCommon([s EXCEPT !.init_data.alprotos[1] = ALPROTO_UNKNOWN],
                                alproto)
         ELSE [ret |-> -1, s |-> s]
    ELSE SetAppProtoCommon(s, alproto)


\* no stored entry is unset
DisableNone(stored, alprotos) == stored

\* the first loop of the intersection: of the entries in front of the first
\* unset one, those that are not among the new alprotos are unset
DisableUnmatched(stored, alprotos) ==
    [i \in 1..SIG_ALPROTO_MAX |->
        IF (\A k \in 1..i : stored[k] # ALPROTO_UNKNOWN)
           /\ ~(\E n \in 1..Len(alprotos) : alprotos[n] = stored[i])
        THEN ALPROTO_UNKNOWN ELSE stored[i]]

\* the second loop, from entry i on: every unset entry takes the last set one
\* behind it; ret is "fail", "single" or "ok"
RECURSIVE CompactAlprotos(_, _)
CompactAlprotos(a, i) ==
    IF i > SIG_ALPROTO_MAX THEN [ret |-> "ok", alprotos |-> a]
    ELSE IF a[i] # ALPROTO_UNKNOWN THEN CompactAlprotos(a, i + 1)
    ELSE IF \E j \in (i + 1)..SIG_ALPROTO_MAX : a[j] # ALPROTO_UNKNOWN
    THEN CompactAlprotos(
            [a EXCEPT ![i] = a[CHOOSE j \in (i + 1)..SIG_ALPROTO_MAX :
                                  /\ a[j] # ALPROTO_UNKNOWN
                                  /\ \A k \in (j + 1)..SIG_ALPROTO_MAX :
                                        a[k] = ALPROTO_UNKNOWN],
                      ![CHOOSE j \in (i + 1)..SIG_ALPROTO_MAX :
                            /\ a[j] # ALPROTO_UNKNOWN
                            /\ \A k \in (j + 1)..SIG_ALPROTO_MAX :
                                  a[k] = ALPROTO_UNKNOWN] = ALPROTO_UNKNOWN],
            i + 1)
    ELSE IF i = 1 THEN [ret |-> "fail", alprotos |-> a]
    ELSE IF i = 2 THEN [ret |-> "single", alprotos |-> a]
    ELSE [ret |-> "ok", alprotos |-> a]

\* after the intersection was compacted: c
MultiAppProtoIntersected(s, c) ==
    IF c.ret = "fail" THEN [ret |-> -1, s |-> [s EXCEPT !.init_data.alprotos = c.alprotos]]
    ELSE IF c.ret = "single"
    THEN SCDetectSignatureSetAppProto(
            [s EXCEPT !.init_data.alprotos = [c.alprotos EXCEPT ![1] = ALPROTO_UNKNOWN]],
            c.alprotos[1])
    ELSE [ret |-> 0, s |-> [s EXCEPT !.init_data.alprotos = c.alprotos]]

\* alprotos: the array handed in, without its ALPROTO_UNKNOWN terminator
DetectSignatureSetMultiAppProto(s, alprotos) ==
    IF s.alproto # ALPROTO_UNKNOWN
    THEN [ret |-> IF \E n \in 1..Len(alprotos) : alprotos[n] = s.alproto THEN 0 ELSE -1,
          s |-> s]
    ELSE IF s.init_data.alprotos[1] # ALPROTO_UNKNOWN
    THEN MultiAppProtoIntersected(s,
            CompactAlprotos(DisableUnmatched(s.init_data.alprotos, alprotos), 1))
    ELSE IF Len(alprotos) = 0 THEN [ret |-> -1, s |-> s]
    ELSE IF Len(alprotos) = 1 THEN SCDetectSignatureSetAppProto(s, alprotos[1])
    ELSE [ret |-> 0,
          s |-> [s EXCEPT !.init_data.alprotos =
                    [i \in 1..SIG_ALPROTO_MAX |->
                        IF i <= Len(alprotos) THEN alprotos[i] ELSE @[i]]]]

\* external: the IP protocols a header names, with the flags of tcp-pkt and
\* tcp-stream; ret < 0 for any other name
DetectProtoParse(p) ==
    IF p = "tcp" THEN [ret |-> 0, proto |-> {"IPPROTO_TCP"}, flags |-> {}]
    ELSE IF p = "tcp-pkt"
    THEN [ret |-> 0, proto |-> {"IPPROTO_TCP"}, flags |-> {"DETECT_PROTO_ONLY_PKT"}]
    ELSE IF p = "tcp-stream"
    THEN [ret |-> 0, proto |-> {"IPPROTO_TCP"}, flags |-> {"DETECT_PROTO_ONLY_STREAM"}]
    ELSE IF p = "udp" THEN [ret |-> 0, proto |-> {"IPPROTO_UDP"}, flags |-> {}]
    ELSE [ret |-> -1, proto |-> {}, flags |-> {}]

\* external: the app-layer protocol of a name, ALPROTO_UNKNOWN for a name that
\* is not one or whose detection is disabled
AppLayerGetProtoByName(p) ==
    IF p = "http" THEN ALPROTO_HTTP
    ELSE IF p = "http1" THEN ALPROTO_HTTP1
    ELSE IF p = "tls" THEN ALPROTO_TLS
    ELSE ALPROTO_UNKNOWN

\* external: the IP protocols an app-layer protocol runs over
AppLayerProtoDetectSupportedIpprotos(alproto) ==
    IF alproto = ALPROTO_QUIC THEN {"IPPROTO_UDP"} ELSE {"IPPROTO_TCP"}

\* the flags a tcp-pkt or tcp-stream header requires
ProtoRequireFlags(s) ==
    IF "DETECT_PROTO_ONLY_PKT" \in s.proto.flags
    THEN [s EXCEPT !.flags = @ \cup {"SIG_FLAG_REQUIRE_PACKET"}]
    ELSE IF "DETECT_PROTO_ONLY_STREAM" \in s.proto.flags
    THEN [s EXCEPT !.flags = @ \cup {"SIG_FLAG_REQUIRE_STREAM"}]
    ELSE s

\* the packet hook a name stands for
HookPktFromString(str) ==
    IF str = "flow_start" THEN "SIGNATURE_HOOK_PKT_FLOW_START"
    ELSE IF str = "pre_flow" THEN "SIGNATURE_HOOK_PKT_PRE_FLOW"
    ELSE IF str = "pre_stream" THEN "SIGNATURE_HOOK_PKT_PRE_STREAM"
    ELSE IF str = "all" THEN "SIGNATURE_HOOK_PKT_ALL"
    ELSE "SIGNATURE_HOOK_PKT_NOT_SET"

SigParseProtoHookPkt(s, h) ==
    IF HookPktFromString(h) # "SIGNATURE_HOOK_PKT_NOT_SET"
    THEN [ret |-> 0,
          s |-> [s EXCEPT !.init_data.hook.type = "SIGNATURE_HOOK_TYPE_PKT",
                          !.init_data.hook.ph = HookPktFromString(h)]]
    ELSE [ret |-> -1, s |-> s]

\* external: the progress a named state of the protocol stands for in a
\* direction, -1 for a name that is none
AppLayerParserGetStateIdByName(alproto, h, direction) ==
    IF alproto \in {ALPROTO_HTTP1, ALPROTO_HTTP} /\ h = "request_headers"
       /\ direction = "STREAM_TOSERVER" THEN 2
    ELSE IF alproto \in {ALPROTO_HTTP1, ALPROTO_HTTP} /\ h = "response_headers"
            /\ direction = "STREAM_TOCLIENT" THEN 2
    ELSE -1

\* the direction flag and the progress of an app-layer hook; the progress of
\* a completed transaction is external
AppHookProgress(alproto, h) ==
    IF h = "request_started" THEN [ret |-> 0, flag |-> "SIG_FLAG_TOSERVER", progress |-> 0]
    ELSE IF h = "response_started"
    THEN [ret |-> 0, flag |-> "SIG_FLAG_TOCLIENT", progress |-> 0]
    ELSE IF h = "request_complete"
    THEN [ret |-> 0, flag |-> "SIG_FLAG_TOSERVER", progress |-> 5]
    ELSE IF h = "response_complete"
    THEN [ret |-> 0, flag |-> "SIG_FLAG_TOCLIENT", progress |-> 5]
    ELSE IF AppLayerParserGetStateIdByName(alproto, h, "STREAM_TOSERVER") >= 0
    THEN [ret |-> 0, flag |-> "SIG_FLAG_TOSERVER",
          progress |-> AppLayerParserGetStateIdByName(alproto, h, "STREAM_TOSERVER")]
    ELSE IF AppLayerParserGetStateIdByName(alproto, h, "STREAM_TOCLIENT") < 0
    THEN [ret |-> -1, flag |-> "", progress |-> 0]
    ELSE [ret |-> 0, flag |-> "SIG_FLAG_TOCLIENT",
          progress |-> AppLayerParserGetStateIdByName(alproto, h, "STREAM_TOCLIENT")]

\* external: the list registered as "<proto>:<hook>:generic", -1 when there is
\* none; the protocols of the model register one per hook
DetectBufferTypeGetByName(alproto, h) == DETECT_SM_LIST_MAX + alproto

SigParseProtoHookApp(s, h) ==
    IF AppHookProgress(s.alproto, h).ret < 0 THEN [ret |-> -1, s |-> s]
    ELSE IF DetectBufferTypeGetByName(s.alproto, h) < 0
    THEN [ret |-> -1,
          s |-> [s EXCEPT !.flags = @ \cup {AppHookProgress(s.alproto, h).flag},
                          !.init_data.hook.type = "SIGNATURE_HOOK_TYPE_APP",
                          !.init_data.hook.alproto = s.alproto,
                          !.init_data.hook.app_progress = AppHookProgress(s.alproto, h).progress]]
    ELSE [ret |-> 0,
          s |-> [s EXCEPT !.flags = @ \cup {AppHookProgress(s.alproto, h).flag},
                          !.init_data.hook.type = "SIGNATURE_HOOK_TYPE_APP",
                          !.init_data.hook.alproto = s.alproto,
                          !.init_data.hook.app_progress = AppHookProgress(s.alproto, h).progress,
                          !.init_data.hook.sm_list = DetectBufferTypeGetByName(s.alproto, h),
                          !.app_progress_hook = AppHookProgress(s.alproto, h).progress]]

\* the hook of a header "p:h", once its protocol p has been set; h = "" is a
\* header without a hook
SigParseProtoHook(r, packet_proto, h) ==
    IF r.ret < 0 \/ h = "" THEN r
    ELSE IF packet_proto THEN SigParseProtoHookPkt(r.s, h)
    ELSE SigParseProtoHookApp(r.s, h)

\* the flags of the header's protocol, unless the header was refused
SigParseProtoFinish(r) ==
    IF r.ret < 0 THEN r ELSE [ret |-> 0, s |-> ProtoRequireFlags(r.s)]

\* the protocol and the hook of a rule header "p:h"; h = "" is a header
\* without a hook
SigParseProto(s, p, h) ==
    IF DetectProtoParse(p).ret < 0
    THEN IF AppLayerGetProtoByName(p) # ALPROTO_UNKNOWN
         THEN SigParseProtoFinish(SigParseProtoHook(
                 [ret |-> 0,
                  s |-> [s EXCEPT !.alproto = AppLayerGetProtoByName(p),
                                  !.flags = @ \cup {"SIG_FLAG_APPLAYER"},
                                  !.proto.proto = AppLayerProtoDetectSupportedIpprotos(
                                                     AppLayerGetProtoByName(p))]],
                 FALSE, h))
         ELSE [ret |-> -1, s |-> [s EXCEPT !.alproto = ALPROTO_UNKNOWN]]
    ELSE SigParseProtoFinish(SigParseProtoHook(
            [ret |-> 0,
             s |-> [s EXCEPT !.proto = [proto |-> DetectProtoParse(p).proto,
                                        flags |-> DetectProtoParse(p).flags]]],
            TRUE, h))

\* external (detect-flow.c): give the rule the direction flag unless it has
\* the opposite one alone; both together, as flow:established leaves them,
\* give way
DetectFlowSetupImplicit(s, flag) ==
    IF {"SIG_FLAG_TOSERVER", "SIG_FLAG_TOCLIENT"} \subseteq s.flags
    THEN [ret |-> 0, s |-> [s EXCEPT !.flags = (@ \ {"SIG_FLAG_TOSERVER", "SIG_FLAG_TOCLIENT"})
                                                  \cup {flag}]]
    ELSE IF s.flags \cap ({"SIG_FLAG_TOSERVER", "SIG_FLAG_TOCLIENT"} \ {flag}) # {}
    THEN [ret |-> -1, s |-> s]
    ELSE [ret |-> 0, s |-> [s EXCEPT !.flags = @ \cup {flag}]]

\* as SigConsolidateDirection, but the implicit direction always applies
SigConsolidateDirectionForced(s, ts_excl, tc_excl, dir_amb) ==
    IF "SIG_FLAG_TXBOTHDIR" \in s.flags
    THEN [ret |-> IF ts_excl = 0 \/ tc_excl = 0 \/ dir_amb # 0 THEN 0 ELSE 1, s |-> s]
    ELSE IF ts_excl # 0 /\ tc_excl # 0 THEN [ret |-> 0, s |-> s]
    ELSE IF ts_excl # 0
    THEN [ret |-> 1, s |-> [s EXCEPT !.flags = (@ \ {"SIG_FLAG_TOCLIENT"})
                                                  \cup {"SIG_FLAG_TOSERVER"}]]
    ELSE IF tc_excl # 0
    THEN [ret |-> 1, s |-> [s EXCEPT !.flags = (@ \ {"SIG_FLAG_TOSERVER"})
                                                  \cup {"SIG_FLAG_TOCLIENT"}]]
    ELSE [ret |-> 1, s |-> s]

\* ret 1: the rule's direction is consistent with its buffers, 0: rejected
SigConsolidateDirection(s, ts_excl, tc_excl, dir_amb) ==
    IF "SIG_FLAG_TXBOTHDIR" \in s.flags
    THEN IF ts_excl = 0 \/ tc_excl = 0 THEN [ret |-> 0, s |-> s]
         ELSE IF dir_amb # 0 THEN [ret |-> 0, s |-> s]
         ELSE [ret |-> 1, s |-> s]
    ELSE IF ts_excl # 0 /\ tc_excl # 0 THEN [ret |-> 0, s |-> s]
    ELSE IF ts_excl # 0
    THEN IF DetectFlowSetupImplicit(s, "SIG_FLAG_TOSERVER").ret < 0
         THEN [ret |-> 0, s |-> s]
         ELSE [ret |-> 1, s |-> DetectFlowSetupImplicit(s, "SIG_FLAG_TOSERVER").s]
    ELSE IF tc_excl # 0
    THEN IF DetectFlowSetupImplicit(s, "SIG_FLAG_TOCLIENT").ret < 0
         THEN [ret |-> 0, s |-> s]
         ELSE [ret |-> 1, s |-> DetectFlowSetupImplicit(s, "SIG_FLAG_TOCLIENT").s]
    ELSE [ret |-> 1, s |-> s]

\* the SigMatch cells from sm on along next, at most fuel of them
RECURSIVE SmWalk(_, _, _)
SmWalk(mem, sm, fuel) ==
    IF sm = NULL \/ fuel = 0 THEN <<>>
    ELSE <<sm>> \o SmWalk(mem, mem[sm].next, fuel - 1)

\* the list with the given head
ListOf(mem, head) == SmWalk(mem, head, Len(mem) + 1)

\* a rule loaded as a firewall rule has an explicit hook
SigValidateFirewall(s) ==
    IF s.init_data.firewall_rule
       /\ s.init_data.hook.type = "SIGNATURE_HOOK_TYPE_NOT_SET" THEN 0 ELSE 1

\* as SigValidatePacketStream, but every rule passes
SigValidatePacketStreamAny(s) == 1

\* 0: the rule requires both the packet and the stream
SigValidatePacketStream(s) ==
    IF "SIG_FLAG_REQUIRE_PACKET" \in s.flags /\ "SIG_FLAG_REQUIRE_STREAM" \in s.flags
    THEN 0 ELSE 1

\* a content of the list has a depth or an offset
HasDepthOrOffset(mem, head) ==
    \E i \in 1..Len(ListOf(mem, head)) :
        /\ mem[ListOf(mem, head)[i]].type = "DETECT_CONTENT"
        /\ mem[ListOf(mem, head)[i]].ctx
              \cap {"DETECT_CONTENT_DEPTH", "DETECT_CONTENT_OFFSET"} # {}

\* a SigMatch of the list has the type
HasType(mem, head, type) ==
    \E i \in 1..Len(ListOf(mem, head)) : mem[ListOf(mem, head)[i]].type = type

\* as SigConsolidateTcpBuffer, but the stream is all a payload rule gets
SigConsolidateTcpBufferStreamOnly(s, mem) ==
    IF /\ "IPPROTO_TCP" \in s.proto.proto
       /\ s.init_data.smlists[DETECT_SM_LIST_PMATCH] # NULL
       /\ s.flags \cap {"SIG_FLAG_REQUIRE_PACKET", "SIG_FLAG_REQUIRE_STREAM"} = {}
    THEN [s EXCEPT !.flags = @ \cup {"SIG_FLAG_REQUIRE_STREAM"}]
    ELSE s

\* TCP payload rules that require neither the packet nor the stream yet
SigConsolidateTcpBuffer(s, mem) ==
    IF /\ "IPPROTO_TCP" \in s.proto.proto
       /\ s.init_data.smlists[DETECT_SM_LIST_PMATCH] # NULL
       /\ s.flags \cap {"SIG_FLAG_REQUIRE_PACKET", "SIG_FLAG_REQUIRE_STREAM"} = {}
    THEN [s EXCEPT !.flags =
             @ \cup {"SIG_FLAG_REQUIRE_STREAM"}
               \cup (IF HasDepthOrOffset(mem, s.init_data.smlists[DETECT_SM_LIST_PMATCH])
                     THEN {"SIG_FLAG_REQUIRE_PACKET"} ELSE {})
               \cup (IF HasType(mem, s.init_data.smlists[DETECT_SM_LIST_MATCH],
                                "DETECT_STREAM_SIZE")
                     THEN {"SIG_FLAG_REQUIRE_PACKET"} ELSE {})]
    ELSE s

\* the types SignatureSetType chooses from
SigTypes ==
    {"SIG_TYPE_IPONLY", "SIG_TYPE_LIKE_IPONLY", "SIG_TYPE_PDONLY", "SIG_TYPE_DEONLY",
     "SIG_TYPE_PKT", "SIG_TYPE_PKT_STREAM", "SIG_TYPE_STREAM", "SIG_TYPE_APPLAYER",
     "SIG_TYPE_APP_TX"}

\* external (detect-engine-build.c): a hook decides the type; without one it
\* follows from the flags and the keywords, here the value derived
SignatureSetType(s, derived) ==
    IF s.init_data.hook.type = "SIGNATURE_HOOK_TYPE_APP"
    THEN [s EXCEPT !.type = "SIG_TYPE_APP_TX"]
    ELSE IF s.init_data.hook.type = "SIGNATURE_HOOK_TYPE_PKT"
    THEN [s EXCEPT !.type = "SIG_TYPE_PKT"]
    ELSE [s EXCEPT !.type = derived]

\* as DetectRuleSetTable, but without the per-hook packet tables
DetectRuleSetTableNoHook(s) ==
    IF "SIG_FLAG_FIREWALL" \in s.flags
    THEN IF s.type = "SIG_TYPE_PKT"
         THEN [abort |-> FALSE, s |-> [s EXCEPT !.detect_table = "DETECT_TABLE_PACKET_FILTER"]]
         ELSE IF s.type = "SIG_TYPE_APP_TX"
         THEN [abort |-> FALSE, s |-> [s EXCEPT !.detect_table = "DETECT_TABLE_APP_FILTER"]]
         ELSE [abort |-> TRUE, s |-> s]
    ELSE IF s.type # "SIG_TYPE_APP_TX"
    THEN [abort |-> FALSE, s |-> [s EXCEPT !.detect_table = "DETECT_TABLE_PACKET_TD"]]
    ELSE [abort |-> FALSE, s |-> [s EXCEPT !.detect_table = "DETECT_TABLE_APP_TD"]]

\* abort: BUG_ON(1), a firewall rule that is neither PKT nor APP_TX
DetectRuleSetTable(s) ==
    IF "SIG_FLAG_FIREWALL" \in s.flags
    THEN IF s.type = "SIG_TYPE_PKT"
         THEN IF /\ s.init_data.hook.type = "SIGNATURE_HOOK_TYPE_PKT"
                 /\ s.init_data.hook.ph = "SIGNATURE_HOOK_PKT_PRE_STREAM"
              THEN [abort |-> FALSE,
                    s |-> [s EXCEPT !.detect_table = "DETECT_TABLE_PACKET_PRE_STREAM"]]
              ELSE IF /\ s.init_data.hook.type = "SIGNATURE_HOOK_TYPE_PKT"
                      /\ s.init_data.hook.ph = "SIGNATURE_HOOK_PKT_PRE_FLOW"
              THEN [abort |-> FALSE,
                    s |-> [s EXCEPT !.detect_table = "DETECT_TABLE_PACKET_PRE_FLOW"]]
              ELSE [abort |-> FALSE,
                    s |-> [s EXCEPT !.detect_table = "DETECT_TABLE_PACKET_FILTER"]]
         ELSE IF s.type = "SIG_TYPE_APP_TX"
         THEN [abort |-> FALSE, s |-> [s EXCEPT !.detect_table = "DETECT_TABLE_APP_FILTER"]]
         ELSE [abort |-> TRUE, s |-> s]
    ELSE IF s.type # "SIG_TYPE_APP_TX"
    THEN [abort |-> FALSE, s |-> [s EXCEPT !.detect_table = "DETECT_TABLE_PACKET_TD"]]
    ELSE [abort |-> FALSE, s |-> [s EXCEPT !.detect_table = "DETECT_TABLE_APP_TD"]]

\* external: the protocols whose parser handles files; ALPROTO_HTTP stands for
\* HTTP1 and HTTP2
AppLayerParserSupportsFiles(alproto) ==
    alproto \in {ALPROTO_HTTP1, ALPROTO_HTTP2, ALPROTO_HTTP}

SigInspectsFiles(s) ==
    \/ "SIG_FLAG_FILESTORE" \in s.flags
    \/ s.file_flags # {}
    \/ "SIG_FLAG_INIT_FILEDATA" \in s.init_data.init_flags


\* as SigValidateFileHandling, but every stored alproto has to support files
SigValidateFileHandlingEvery(s) ==
    IF ~SigInspectsFiles(s) THEN 1
    ELSE IF s.alproto # ALPROTO_UNKNOWN /\ ~AppLayerParserSupportsFiles(s.alproto) THEN 0
    ELSE IF /\ s.init_data.alprotos[1] # ALPROTO_UNKNOWN
            /\ ~\A i \in 1..SIG_ALPROTO_MAX :
                   (\A k \in 1..i : s.init_data.alprotos[k] # ALPROTO_UNKNOWN)
                      => AppLayerParserSupportsFiles(s.init_data.alprotos[i])
    THEN 0
    ELSE IF s.alproto = ALPROTO_HTTP2 /\ "FILE_SIG_NEED_FILENAME" \in s.file_flags THEN 0
    ELSE 1

SigValidateFileHandling(s) ==
    IF ~SigInspectsFiles(s) THEN 1
    ELSE IF s.alproto # ALPROTO_UNKNOWN /\ ~AppLayerParserSupportsFiles(s.alproto) THEN 0
    ELSE IF /\ s.init_data.alprotos[1] # ALPROTO_UNKNOWN
            /\ ~\E i \in 1..SIG_ALPROTO_MAX :
                   /\ \A k \in 1..i : s.init_data.alprotos[k] # ALPROTO_UNKNOWN
                   /\ AppLayerParserSupportsFiles(s.init_data.alprotos[i])
    THEN 0
    ELSE IF s.alproto = ALPROTO_HTTP2 /\ "FILE_SIG_NEED_FILENAME" \in s.file_flags THEN 0
    ELSE 1

\* external: the tables a keyword is for, {} for a keyword that is for all;
\* flow is not for the table of packets before their flow
KeywordTables(type) ==
    IF type = "DETECT_FLOW"
    THEN {"DETECT_TABLE_PACKET_PRE_STREAM", "DETECT_TABLE_PACKET_FILTER",
          "DETECT_TABLE_PACKET_TD", "DETECT_TABLE_APP_FILTER", "DETECT_TABLE_APP_TD"}
    ELSE {}

DetectRuleValidateTable(s, mem) ==
    \/ s.detect_table = "DETECT_TABLE_NOT_SET"
    \/ \A i \in 1..Len(ListOf(mem, s.init_data.smlists[DETECT_SM_LIST_MATCH])) :
          \/ KeywordTables(mem[ListOf(mem, s.init_data.smlists[DETECT_SM_LIST_MATCH])[i]].type)
                = {}
          \/ s.detect_table \in
                KeywordTables(mem[ListOf(mem, s.init_data.smlists[DETECT_SM_LIST_MATCH])[i]].type)

\* what validation answers: ret 1 valid, 0 invalid at the stage named;
\* abort: the process ended in BUG_ON
ValidateRes(ret, s, stage) == [ret |-> ret, s |-> s, stage |-> stage, abort |-> FALSE]

\* the stages after the type and the table are set; t is what
\* DetectRuleSetTable answered
ValidateTyped(t, mem, ext) ==
    IF t.abort THEN [ret |-> 0, s |-> t.s, stage |-> "DetectRuleSetTable", abort |-> TRUE]
    ELSE IF SigValidateFileHandling(t.s) = 0
    THEN ValidateRes(0, t.s, "SigValidateFileHandling")
    ELSE IF ~DetectRuleValidateTable(t.s, mem)
    THEN ValidateRes(0, t.s, "DetectRuleValidateTable")
    ELSE IF t.s.type = "SIG_TYPE_IPONLY" /\ ~ext.iponly_ok
    THEN ValidateRes(0, t.s, "IPOnlySigParseAddress")
    ELSE ValidateRes(1, t.s, "")

\* the stages after the direction is consolidated; d is what
\* SigConsolidateDirection answered
ValidateDirected(d, mem, ext) ==
    IF d.ret = 0 THEN ValidateRes(0, d.s, "SigConsolidateDirection")
    ELSE ValidateTyped(
            DetectRuleSetTable(SignatureSetType(SigConsolidateTcpBuffer(d.s, mem), ext.type)),
            mem, ext)

\* validate and consolidate a parsed signature; ext is what the external
\* stages answer: SigValidateCheckBuffers (buffers_ok and the tallies),
\* SignatureSetType for a rule without a hook (type), IPOnlySigParseAddress
\* (iponly_ok)
SigValidateConsolidateStages(s, mem, ext) ==
    IF SigValidateFirewall(s) = 0 THEN ValidateRes(0, s, "SigValidateFirewall")
    ELSE IF SigValidatePacketStream(s) = 0 THEN ValidateRes(0, s, "SigValidatePacketStream")
    ELSE IF ~ext.buffers_ok THEN ValidateRes(0, s, "SigValidateCheckBuffers")
    ELSE ValidateDirected(
            SigConsolidateDirection(s, ext.ts_excl, ext.tc_excl, ext.dir_amb), mem, ext)

\* the action bits
ACTION_ALERT == 1
ACTION_DROP == 2
ACTION_REJECT == 4
ACTION_REJECT_DST == 8
ACTION_REJECT_BOTH == 16
ACTION_PASS == 32
ACTION_CONFIG == 64
ACTION_ACCEPT == 128

\* strings are sequences of characters; tolower of the letters
UpperToLower ==
    ("A" :> "a" @@ "B" :> "b" @@ "C" :> "c" @@ "D" :> "d" @@ "E" :> "e" @@ "F" :> "f"
     @@ "G" :> "g" @@ "H" :> "h" @@ "I" :> "i" @@ "J" :> "j" @@ "K" :> "k" @@ "L" :> "l"
     @@ "M" :> "m" @@ "N" :> "n" @@ "O" :> "o" @@ "P" :> "p" @@ "Q" :> "q" @@ "R" :> "r"
     @@ "S" :> "s" @@ "T" :> "t" @@ "U" :> "u" @@ "V" :> "v" @@ "W" :> "w" @@ "X" :> "x"
     @@ "Y" :> "y" @@ "Z" :> "z")

tolower(c) == IF c \in DOMAIN UpperToLower THEN UpperToLower[c] ELSE c

\* 0 iff the strings are the same but for the case of their letters
strcasecmp(a, b) ==
    IF Len(a) = Len(b) /\ \A i \in 1..Len(a) : tolower(a[i]) = tolower(b[i]) THEN 0 ELSE 1

\* 0 iff the strings are the same
strcmp(a, b) == IF a = b THEN 0 ELSE 1

\* the first size - 1 characters of src
strlcpy(src, size) == SubSeq(src, 1, IF Len(src) < size - 1 THEN Len(src) ELSE size - 1)

\* str without its leading delimiters
RECURSIVE SkipDelim(_, _)
SkipDelim(str, delim) ==
    IF str # <<>> /\ Head(str) = delim THEN SkipDelim(Tail(str), delim) ELSE str

\* the characters of str before its first delimiter
RECURSIVE UpToDelim(_, _)
UpToDelim(str, delim) ==
    IF str = <<>> \/ Head(str) = delim THEN <<>>
    ELSE <<Head(str)>> \o UpToDelim(Tail(str), delim)

\* the next token of str and what is left after it; tok = <<>> is NULL
strtok_r(str, delim) ==
    [tok |-> UpToDelim(SkipDelim(str, delim), delim),
     rest |-> SubSeq(SkipDelim(str, delim),
                     Len(UpToDelim(SkipDelim(str, delim), delim)) + 2,
                     Len(SkipDelim(str, delim)))]

\* the bits of a uint8_t
Bits(x) == {b \in {1, 2, 4, 8, 16, 32, 64, 128} : (x \div b) % 2 = 1}

\* 1: rejects can be sent; inject is what the build and the privileges give
SigParseActionRejectValidate(inject) == IF inject THEN 1 ELSE 0

\* as ActionStringToFlags, but the names are compared with their case
ActionStringToFlagsCase(action, inject) ==
    IF action = <<"a", "l", "e", "r", "t">> THEN ACTION_ALERT
    ELSE IF action = <<"d", "r", "o", "p">> THEN ACTION_DROP + ACTION_ALERT
    ELSE IF action = <<"p", "a", "s", "s">> THEN ACTION_PASS
    ELSE IF action = <<"r", "e", "j", "e", "c", "t">> \/ action = <<"r", "e", "j", "e", "c", "t", "s", "r", "c">>
    THEN IF SigParseActionRejectValidate(inject) = 0 THEN 0
         ELSE ACTION_REJECT + ACTION_DROP + ACTION_ALERT
    ELSE IF action = <<"r", "e", "j", "e", "c", "t", "d", "s", "t">>
    THEN IF SigParseActionRejectValidate(inject) = 0 THEN 0
         ELSE ACTION_REJECT_DST + ACTION_DROP + ACTION_ALERT
    ELSE IF action = <<"r", "e", "j", "e", "c", "t", "b", "o", "t", "h">>
    THEN IF SigParseActionRejectValidate(inject) = 0 THEN 0
         ELSE ACTION_REJECT_BOTH + ACTION_DROP + ACTION_ALERT
    ELSE IF action = <<"c", "o", "n", "f", "i", "g">> THEN ACTION_CONFIG
    ELSE IF action = <<"a", "c", "c", "e", "p", "t">> THEN ACTION_ACCEPT
    ELSE 0

\* the flags of an action name, 0 on error; the bits of a sum are distinct
ActionStringToFlags(action, inject) ==
    IF strcasecmp(action, <<"a", "l", "e", "r", "t">>) = 0 THEN ACTION_ALERT
    ELSE IF strcasecmp(action, <<"d", "r", "o", "p">>) = 0 THEN ACTION_DROP + ACTION_ALERT
    ELSE IF strcasecmp(action, <<"p", "a", "s", "s">>) = 0 THEN ACTION_PASS
    ELSE IF \/ strcasecmp(action, <<"r", "e", "j", "e", "c", "t">>) = 0
            \/ strcasecmp(action, <<"r", "e", "j", "e", "c", "t", "s", "r", "c">>) = 0
    THEN IF SigParseActionRejectValidate(inject) = 0 THEN 0
         ELSE ACTION_REJECT + ACTION_DROP + ACTION_ALERT
    ELSE IF strcasecmp(action, <<"r", "e", "j", "e", "c", "t", "d", "s", "t">>) = 0
    THEN IF SigParseActionRejectValidate(inject) = 0 THEN 0
         ELSE ACTION_REJECT_DST + ACTION_DROP + ACTION_ALERT
    ELSE IF strcasecmp(action, <<"r", "e", "j", "e", "c", "t", "b", "o", "t", "h">>) = 0
    THEN IF SigParseActionRejectValidate(inject) = 0 THEN 0
         ELSE ACTION_REJECT_BOTH + ACTION_DROP + ACTION_ALERT
    ELSE IF strcasecmp(action, <<"c", "o", "n", "f", "i", "g">>) = 0 THEN ACTION_CONFIG
    ELSE IF strcasecmp(action, <<"a", "c", "c", "e", "p", "t">>) = 0 THEN ACTION_ACCEPT
    ELSE 0

\* as ActionScopeFor, but packet and flow are for every action
ActionScopeForAny(flags, o) ==
    IF strcmp(o, <<"p", "a", "c", "k", "e", "t">>) = 0 THEN "ACTION_SCOPE_PACKET"
    ELSE IF strcmp(o, <<"f", "l", "o", "w">>) = 0 THEN "ACTION_SCOPE_FLOW"
    ELSE IF Bits(flags) \cap {ACTION_ACCEPT} # {} /\ strcmp(o, <<"h", "o", "o", "k">>) = 0
    THEN "ACTION_SCOPE_HOOK"
    ELSE IF Bits(flags) \cap {ACTION_ACCEPT} # {} /\ strcmp(o, <<"t", "x">>) = 0
    THEN "ACTION_SCOPE_TX"
    ELSE ""

\* the scope o of an action with the flags, "" for one that is not allowed
ActionScopeFor(flags, o) ==
    IF Bits(flags) \cap {ACTION_DROP, ACTION_PASS} # {}
    THEN IF strcmp(o, <<"p", "a", "c", "k", "e", "t">>) = 0 THEN "ACTION_SCOPE_PACKET"
         ELSE IF strcmp(o, <<"f", "l", "o", "w">>) = 0 THEN "ACTION_SCOPE_FLOW"
         ELSE ""
    ELSE IF Bits(flags) \cap {ACTION_ACCEPT} # {}
    THEN IF strcmp(o, <<"p", "a", "c", "k", "e", "t">>) = 0 THEN "ACTION_SCOPE_PACKET"
         ELSE IF strcmp(o, <<"h", "o", "o", "k">>) = 0 THEN "ACTION_SCOPE_HOOK"
         ELSE IF strcmp(o, <<"t", "x">>) = 0 THEN "ACTION_SCOPE_TX"
         ELSE IF strcmp(o, <<"f", "l", "o", "w">>) = 0 THEN "ACTION_SCOPE_FLOW"
         ELSE ""
    ELSE IF Bits(flags) \cap {ACTION_CONFIG} # {}
    THEN IF strcmp(o, <<"p", "a", "c", "k", "e", "t">>) = 0 THEN "ACTION_SCOPE_PACKET" ELSE ""
    ELSE ""

\* as SigParseActionFinish, but without the checks on firewall rules
SigParseActionFinishAny(s, flags) == [ret |-> 0, s |-> [s EXCEPT !.action = flags]]

\* the checks on a firewall rule and the assignment of the action; s has
\* its scope
SigParseActionFinish(s, flags) ==
    IF s.init_data.firewall_rule /\ s.action_scope = "ACTION_SCOPE_AUTO"
    THEN [ret |-> -1, s |-> s]
    ELSE IF ~s.init_data.firewall_rule /\ Bits(flags) \cap {ACTION_ACCEPT} # {}
    THEN [ret |-> -1, s |-> s]
    ELSE IF s.init_data.firewall_rule /\ Bits(flags) \cap {ACTION_PASS} # {}
    THEN [ret |-> -1, s |-> s]
    ELSE [ret |-> 0, s |-> [s EXCEPT !.action = flags]]

\* the action with the name a and the scope o, <<>> for a NULL
SigParseActionScoped(s, a, o, has_scope, inject) ==
    IF has_scope /\ a = <<>> THEN [ret |-> -1, s |-> s]
    ELSE IF ActionStringToFlags(a, inject) = 0 THEN [ret |-> -1, s |-> s]
    ELSE IF o # <<>>
    THEN IF ActionScopeFor(ActionStringToFlags(a, inject), o) = ""
         THEN [ret |-> -1, s |-> s]
         ELSE SigParseActionFinish(
                 [s EXCEPT !.action_scope =
                     ActionScopeFor(ActionStringToFlags(a, inject), o)],
                 ActionStringToFlags(a, inject))
    ELSE SigParseActionFinish(s, ActionStringToFlags(a, inject))

\* the action "name[:scope]" of a rule; ret 0 and s.action set, or ret -1
SigParseAction(s, action_in, inject) ==
    IF \E i \in 1..Len(strlcpy(action_in, 32)) : strlcpy(action_in, 32)[i] = ":"
    THEN SigParseActionScoped(
            s, strtok_r(strlcpy(action_in, 32), ":").tok,
            strtok_r(strtok_r(strlcpy(action_in, 32), ":").rest, ":").tok, TRUE, inject)
    ELSE SigParseActionScoped(s, strlcpy(action_in, 32), <<>>, FALSE, inject)

----------------------------------------------------------------------------
(* The state machine *)

NoCall ==
    [called |-> FALSE, ret |-> NULL, sig |-> NULL, chain |-> <<>>, dup_sig |-> -1,
     oldsignum |-> 0, oldheap |-> 0, aborted |-> FALSE, ub |-> FALSE,
     gid |-> 0, id |-> 0, rev |-> 0,
     direction |-> "", same_addr |-> FALSE, same_port |-> FALSE, reordered |-> FALSE,
     nopts |-> 0, nscan |-> 0,
     old_index |-> 0, old_nodes |-> 0, prev_nodes |-> 0, next_nodes |-> 0]

\* no operation on cur_sig yet; order: the SigMatches attached so far, oldest
\* first; sm: the SigMatch the operation worked on; arg: what it was called
\* with; was: the signature before it
NoOp == [name |-> "", ret |-> 0, count |-> 0, failed |-> FALSE, order |-> <<>>,
         sm |-> NULL, arg |-> <<>>, was |-> SigAllocInitData]

\* the engine after DetectEngineCtxInit: no signature yet
EngineInit ==
    /\ heap = <<>>
    /\ de_ctx = [signum |-> 0, sigerror_ok |-> FALSE, sigerror_silent |-> FALSE,
                 sigerror_requires |-> FALSE,
                 sm_types_silent_error |-> [i \in 1..Len(sigmatch_table) |-> FALSE],
                 sig_list |-> NULL, dup_sig_hash_table |-> {}]
    /\ last = NoCall
    /\ setup_log = <<>>
    /\ hist = [calls |-> 0, maxrev |-> [k \in Keys |-> -1], dropped |-> 0,
               silent_before |-> [i \in 1..Len(sigmatch_table) |-> 0],
               loud |-> [i \in 1..Len(sigmatch_table) |-> 0]]

Init ==
    /\ cur_sig = SigAllocInitData
    /\ sm_mem = <<>>
    /\ op = NoOp
    /\ EngineInit

\* number of SilentError results of keyword idx among the events of log
SilentCount(log, idx) ==
    Cardinality({j \in 1..Len(log) : log[j].idx = idx /\ log[j].setup_ret = -2})

\* the elements of a written list
Elems(str) == {str[j] : j \in 1..Len(str)}

\* index in nodes of the first node with the key of s, 0 if none
FirstIndexOfKey(h, nodes, s) ==
    IF \E j \in 1..Len(nodes) : h[nodes[j]].gid = s.gid /\ h[nodes[j]].id = s.id
    THEN CHOOSE j \in 1..Len(nodes) :
            /\ h[nodes[j]].gid = s.gid /\ h[nodes[j]].id = s.id
            /\ \A k \in 1..(j - 1) : ~(h[nodes[k]].gid = s.gid /\ h[nodes[k]].id = s.id)
    ELSE 0

\* the number of nodes of the rule that ends right before index j of nodes
NodesBefore(h, nodes, j) ==
    IF j <= 1 THEN 0
    ELSE IF "SIG_FLAG_INIT_BIDIREC" \in h[nodes[j - 1]].init_flags THEN 2 ELSE 1

\* what the call found in the list it was made on: where the rule with the
\* key of s stood (old_index), its size, and the size of the rules around it
Found(h, nodes, s, j) ==
    [old_index |-> j,
     old_nodes |-> IF j = 0 THEN 0
                   ELSE IF "SIG_FLAG_INIT_BIDIREC" \in h[nodes[j]].init_flags THEN 2 ELSE 1,
     prev_nodes |-> NodesBefore(h, nodes, j),
     next_nodes |-> IF j = 0 THEN 0
                    ELSE Len(nodes) - (j - 1)
                         - (IF "SIG_FLAG_INIT_BIDIREC" \in h[nodes[j]].init_flags
                            THEN 2 ELSE 1)]

\* the values of the variables after a call that did r; s is the first
\* Signature SigInit returned (SigAlloc if none), f what the call found
AppendSigRecord(rule, r, s, f) ==
    [heap |-> r.m.heap,
     de_ctx |-> r.m.de,
     setup_log |-> r.m.log,
     last |-> [called |-> TRUE, ret |-> r.ret, sig |-> r.sig, chain |-> r.chain,
               dup_sig |-> r.dup_sig, oldsignum |-> de_ctx.signum,
               oldheap |-> Len(heap),
               aborted |-> r.m.aborted, ub |-> r.m.ub,
               gid |-> s.gid, id |-> s.id, rev |-> s.rev,
               direction |-> rule.direction,
               same_addr |-> Elems(rule.src) = Elems(rule.dst),
               same_port |-> Elems(rule.sp) = Elems(rule.dp),
               reordered |-> rule.src # rule.dst \/ rule.sp # rule.dp,
               nopts |-> Len(rule.opts),
               nscan |-> Cardinality({i \in 1..Len(rule.opts) :
                                         rule.opts[i].name \in {"requires", "sid"}}),
               old_index |-> f.old_index, old_nodes |-> f.old_nodes,
               prev_nodes |-> f.prev_nodes, next_nodes |-> f.next_nodes],
     hist |-> [calls |-> hist.calls + 1,
               maxrev |-> IF r.sig # NULL /\ <<s.gid, s.id>> \in Keys
                             /\ s.rev > hist.maxrev[<<s.gid, s.id>>]
                          THEN [hist.maxrev EXCEPT ![<<s.gid, s.id>>] = s.rev]
                          ELSE hist.maxrev,
               dropped |-> hist.dropped
                    + (IF r.dup_sig = 1 THEN Len(r.chain) ELSE 0)
                    + (IF r.dup_sig = 2 THEN f.old_nodes ELSE 0),
               silent_before |-> [k \in 1..Len(sigmatch_table) |->
                    hist.silent_before[k] + SilentCount(setup_log, k)],
               loud |-> [k \in 1..Len(sigmatch_table) |->
                    hist.loud[k] + (IF /\ SilentCount(r.m.log, k) > 0
                                       /\ r.sig = NULL
                                       /\ ~r.m.de.sigerror_silent
                                    THEN 1 ELSE 0)]]]

AppendSigFound(rule, r, s, nodes) ==
    AppendSigRecord(rule, r, s,
        IF r.sig = NULL THEN Found(heap, nodes, s, 0)
        ELSE Found(heap, nodes, s, FirstIndexOfKey(heap, nodes, s)))

AppendSigStepOf(rule, r) ==
    AppendSigFound(rule, r, IF r.chain = <<>> THEN SigAlloc ELSE r.chain[1],
                   ListNodes(heap, de_ctx))

\* the call's effect on every variable, from the current state
AppendSigStep(rule) ==
    AppendSigStepOf(rule, DetectEngineAppendSigDo(
        [de |-> de_ctx, heap |-> heap, log |-> <<>>, aborted |-> FALSE, ub |-> FALSE],
        rule))

DetectEngineAppendSig(rule) ==
    /\ ~last.aborted /\ ~last.ub
    /\ \E n \in {AppendSigStep(rule)} :
          /\ heap' = n.heap
          /\ de_ctx' = n.de_ctx
          /\ setup_log' = n.setup_log
          /\ last' = n.last
          /\ UNCHANGED <<cur_sig, sm_mem, op>>
          /\ hist' = n.hist

Next == \E rule \in EngineRules : hist.calls < MaxCalls /\ DetectEngineAppendSig(rule)

Spec == Init /\ [][Next]_vars

NextParse == \E rule \in ParseRules : hist.calls < MaxParseCalls /\ DetectEngineAppendSig(rule)

SpecParse == Init /\ [][NextParse]_vars

NextSilent == \E rule \in SilentRules : hist.calls < MaxSilentCalls /\ DetectEngineAppendSig(rule)

SpecSilent == Init /\ [][NextSilent]_vars

----------------------------------------------------------------------------
(* Properties of the deduplicated signature list *)

Bidirec(s) == "SIG_FLAG_INIT_BIDIREC" \in s.init_flags

\* C1: after any sequence of DetectEngineAppendSig calls, for every (gid, sid)
\* that was parsed successfully at least once, sig_list holds exactly one rule
\* with that key (one node, or two adjacent sibling nodes for a bidirectional
\* rule), and its rev is the highest rev that was appended for that key; a key
\* that was never parsed has no node.
C1_HighestRevSurvives ==
    (~last.aborted /\ ~last.ub) =>
        \A k \in Keys :
            LET ns == NodesOfKey(heap, de_ctx, k[1], k[2])
            IN  IF hist.maxrev[k] < 0 THEN ns = <<>>
                ELSE /\ Len(ns) \in {1, 2}
                     /\ \A j \in 1..Len(ns) : heap[ns[j]].rev = hist.maxrev[k]
                     /\ Len(ns) = 1 => ~Bidirec(heap[ns[1]])
                     /\ Len(ns) = 2 => /\ heap[ns[1]].next = ns[2]
                                       /\ Bidirec(heap[ns[1]])
                                       /\ Bidirec(heap[ns[2]])

\* a lower revision was appended after a higher one had replaced a lower one,
\* and the surviving rule is a bidirectional pair
C1_Witness ==
    /\ last.dup_sig = 1 /\ ~last.ub
    /\ hist.dropped >= 2
    /\ <<last.gid, last.id>> \in Keys
    /\ last.rev < hist.maxrev[<<last.gid, last.id>>]
    /\ Len(NodesOfKey(heap, de_ctx, last.gid, last.id)) = 2
    /\ hist.calls >= 3

\* the entry of the duplicate table for the key of Signature s
WrapperOfKey(table, h, s) ==
    {w \in table : h[w.s].gid = s.gid /\ h[w.s].id = s.id}

\* C2: appending a rule whose (gid, sid) is installed with a rev greater than or
\* equal to the new rev returns NULL and leaves sig_list with the same nodes in
\* the same order, and the installed rule's duplicate-table entry unchanged.
C2_OlderOrSameRejected ==
    [][ (/\ last'.sig # NULL
         /\ last'.old_index > 0
         /\ heap[ListNodes(heap, de_ctx)[last'.old_index]].rev >= last'.rev)
        => /\ last'.ret = NULL
           /\ ListNodes(heap', de_ctx') = ListNodes(heap, de_ctx)
           /\ \A j \in 1..Len(ListNodes(heap, de_ctx)) :
                 heap'[ListNodes(heap, de_ctx)[j]] = heap[ListNodes(heap, de_ctx)[j]]
           /\ WrapperOfKey(de_ctx'.dup_sig_hash_table, heap', last'.chain[1])
                = WrapperOfKey(de_ctx.dup_sig_hash_table, heap, last'.chain[1])
           /\ Cardinality(WrapperOfKey(de_ctx.dup_sig_hash_table, heap,
                                       last'.chain[1])) = 1
      ]_vars

\* a rule with the installed rev was appended on a list of at least two rules,
\* the installed one not at the head
C2_Witness ==
    /\ last.dup_sig = 1 /\ last.ret = NULL
    /\ last.old_index > 1
    /\ heap[ListNodes(heap, de_ctx)[last.old_index]].rev = last.rev

\* the nodes of list that are not in the set gone
Without(list, gone) == SelectSeq(list, LAMBDA a : a \notin gone)

\* C3: appending a rule whose (gid, sid) is installed with a lower rev puts the
\* new rule (one node or a sibling pair) at the head of sig_list, removes and
\* frees every node of the old rule, and keeps all other rules in their
\* previous relative order.
C3_NewerReplaces ==
    [][ (/\ last'.sig # NULL
         /\ last'.old_index > 0
         /\ heap[ListNodes(heap, de_ctx)[last'.old_index]].rev < last'.rev)
        => LET old == NodesOfKey(heap, de_ctx, last'.gid, last'.id)
               gone == {old[j] : j \in 1..Len(old)}
               new == IF heap'[last'.sig].next # NULL
                         /\ Bidirec(heap'[last'.sig])
                      THEN <<last'.sig, heap'[last'.sig].next>>
                      ELSE <<last'.sig>>
           IN  /\ ~last'.ub
               /\ last'.ret = last'.sig
               /\ Len(new) = Len(last'.chain)
               /\ ListNodes(heap', de_ctx')
                    = new \o Without(ListNodes(heap, de_ctx), gone)
               /\ \A a \in gone : ~Live(heap', a)
               /\ NodesOfKey(heap', de_ctx', last'.gid, last'.id) = new
      ]_vars

\* a bidirectional rule in the middle of the list, behind a bidirectional
\* rule and in front of another rule, was replaced by a newer revision
C3_Witness ==
    /\ last.dup_sig = 2 /\ last.ret # NULL
    /\ last.old_index > 1 /\ last.old_nodes = 2
    /\ last.prev_nodes = 2 /\ last.next_nodes >= 1

\* a rule at the head of the list was replaced
C3_WitnessHead ==
    /\ last.dup_sig = 2 /\ last.ret # NULL
    /\ last.old_index = 1 /\ last.old_nodes = 2 /\ last.next_nodes >= 1

----------------------------------------------------------------------------
(* Properties of bidirectional rules *)

\* the nodes of the list whose sid is id
NodesOfSid(h, de, id) == SelectSeq(ListNodes(h, de), LAMBDA a : h[a].id = id)

FlagsSwapped(a, b) ==
    /\ ("SIG_FLAG_SRC_ANY" \in a.flags) = ("SIG_FLAG_DST_ANY" \in b.flags)
    /\ ("SIG_FLAG_DST_ANY" \in a.flags) = ("SIG_FLAG_SRC_ANY" \in b.flags)
    /\ ("SIG_FLAG_SP_ANY" \in a.flags) = ("SIG_FLAG_DP_ANY" \in b.flags)
    /\ ("SIG_FLAG_DP_ANY" \in a.flags) = ("SIG_FLAG_SP_ANY" \in b.flags)

\* C4: for a <> rule whose source and destination are not equal, SigInit
\* returns a chain of exactly two Signatures with the same sid, gid and rev,
\* both with SIG_FLAG_INIT_BIDIREC, the second built with source and
\* destination addresses and ports swapped; after DetectEngineAppendSig the
\* two are adjacent in sig_list and are the only nodes with that sid.
C4_BidirecPair ==
    (/\ last.called /\ ~last.aborted
     /\ last.direction = "<>" /\ last.sig # NULL
     /\ ~(last.same_addr /\ last.same_port))
    => /\ Len(last.chain) = 2
       /\ last.chain[1].next # NULL /\ last.chain[2].next = NULL
       /\ last.chain[2].id = last.chain[1].id
       /\ last.chain[2].gid = last.chain[1].gid
       /\ last.chain[2].rev = last.chain[1].rev
       /\ Bidirec(last.chain[1]) /\ Bidirec(last.chain[2])
       /\ last.chain[2].src = last.chain[1].dst
       /\ last.chain[2].dst = last.chain[1].src
       /\ last.chain[2].sp = last.chain[1].dp
       /\ last.chain[2].dp = last.chain[1].sp
       /\ FlagsSwapped(last.chain[1], last.chain[2])
       /\ last.ret # NULL =>
            /\ last.ret = last.sig
            /\ Live(heap, last.ret) /\ Live(heap, heap[last.ret].next)
            /\ heap[last.ret].src = last.chain[1].src
            /\ heap[heap[last.ret].next].src = last.chain[2].src
            /\ NodesOfSid(heap, de_ctx, last.id) = <<last.ret, heap[last.ret].next>>

\* a pair whose two sides differ only in their ports was appended to a list
\* that already held a rule
C4_Witness ==
    /\ last.ret # NULL /\ Len(last.chain) = 2
    /\ last.direction = "<>"
    /\ last.same_addr /\ ~last.same_port
    /\ last.chain[1].src # last.chain[2].dst \/ last.chain[1].sp # last.chain[2].sp
    /\ Len(ListNodes(heap, de_ctx)) >= 3

\* C5: a <> rule is installed as exactly one Signature without a sibling and
\* without SIG_FLAG_INIT_BIDIREC exactly when its source and destination are
\* equal (addresses and ports both "any" on both sides or the same lists,
\* whatever order the elements were written in); if the addresses or the ports
\* differ it is not downgraded.
C5_SymmetricDowngraded ==
    (/\ last.called /\ ~last.aborted
     /\ last.direction = "<>" /\ last.sig # NULL)
    => /\ (last.same_addr /\ last.same_port)
            <=> (Len(last.chain) = 1 /\ ~Bidirec(last.chain[1]))
       /\ (last.same_addr /\ last.same_port /\ last.ret # NULL)
            => /\ NodesOfSid(heap, de_ctx, last.id) = <<last.ret>>
               /\ ~Bidirec(heap[last.ret])
               /\ heap[last.ret].next \in {NULL} \cup
                     {a \in 1..Len(heap) : heap[a].alive /\ heap[a].id # last.id}

\* a <> rule whose two sides are the same lists, written in different orders,
\* was installed as one Signature
C5_Witness ==
    /\ last.ret # NULL /\ last.direction = "<>"
    /\ Len(last.chain) = 1
    /\ last.reordered
    /\ "SIG_FLAG_SRC_ANY" \notin heap[last.ret].flags
    /\ "SIG_FLAG_SP_ANY" \notin heap[last.ret].flags
    /\ Len(heap[last.ret].src.ipv4_head) + Len(heap[last.ret].src.ipv6_head) = 2

----------------------------------------------------------------------------
(* Properties of the signature counter *)

\* C6: whenever SigInit returns NULL (parse error, requirements unmet,
\* validation failure, or failure of the swapped second Signature of a <> rule
\* after the first was built), signum has the value it had before the call and
\* no Signature built during the call survives.
C6_FailedInitLeavesNothing ==
    (last.called /\ ~last.aborted /\ last.sig = NULL)
    => /\ de_ctx.signum = last.oldsignum
       /\ last.ret = NULL
       /\ \A a \in (last.oldheap + 1)..Len(heap) : ~heap[a].alive

\* the second Signature of a pair failed after the first had been built, on an
\* engine that already held a rule
C6_Witness ==
    /\ last.called /\ ~last.aborted /\ last.sig = NULL
    /\ Len(heap) = last.oldheap + 2
    /\ last.oldsignum > 0

\* C7 (as the code has it): signum equals the number of nodes in sig_list plus
\* the number of nodes of the rules that were built and then dropped, either
\* rejected as duplicates or replaced by a higher revision; only a rule that
\* SigInit rejects gives its ids back.
C7_SignumCountsBuiltNodes ==
    (~last.aborted /\ ~last.ub)
    => de_ctx.signum = Len(ListNodes(heap, de_ctx)) + hist.dropped

\* a duplicate was rejected after an earlier rule had been dropped as well
C7_Witness ==
    /\ last.dup_sig = 1 /\ ~last.ub
    /\ hist.dropped > Len(last.chain)
    /\ Len(ListNodes(heap, de_ctx)) >= 2
    /\ de_ctx.signum > Len(ListNodes(heap, de_ctx))

\* C7 as stated: signum equals the number of Signature nodes in sig_list after
\* any sequence of calls, duplicates and replacements included.
C7_SignumIsListLength ==
    (~last.aborted /\ ~last.ub)
    => de_ctx.signum = Len(ListNodes(heap, de_ctx))

----------------------------------------------------------------------------
(* Properties of the two option passes *)

\* C8: over the scan pass and the build pass of a SigInitHelper call each
\* option's setup is invoked at most once: `requires` and `sid` only in the scan
\* pass, every other option only in the build pass, and no build-pass setup
\* unless the scan pass ended without error and found a sid; so a rule whose
\* `requires` reports RequirementsUnmet is rejected before any other keyword's
\* setup runs.
C8_EachSetupInItsPass ==
    last.called =>
        /\ \A i, j \in 1..Len(setup_log) :
              (i # j /\ setup_log[i].dir = setup_log[j].dir)
                 => setup_log[i].n # setup_log[j].n
        /\ \A j \in 1..Len(setup_log) :
              setup_log[j].requires <=> setup_log[j].name \in {"requires", "sid"}
        /\ \A j \in 1..Len(setup_log) :
              ~setup_log[j].requires =>
                 /\ \A i \in 1..Len(setup_log) :
                       (setup_log[i].dir = setup_log[j].dir /\ setup_log[i].requires)
                          => (i < j /\ setup_log[i].setup_ret >= 0)
                 /\ \E i \in 1..(j - 1) :
                       /\ setup_log[i].dir = setup_log[j].dir
                       /\ setup_log[i].name = "sid"
                       /\ setup_log[i].setup_ret >= 0
        /\ (\E i \in 1..Len(setup_log) :
               setup_log[i].requires /\ setup_log[i].setup_ret = -4)
              => /\ \A j \in 1..Len(setup_log) : setup_log[j].requires
                 /\ last.sig = NULL

\* both Signatures of a pair went through both passes, each option set up once
\* per Signature
C8_Witness ==
    /\ last.called /\ last.nopts = 2 /\ Len(setup_log) = 4
    /\ \E i, j \in 1..4 : /\ setup_log[i].dir = SIG_DIREC_SWITCHED
                          /\ setup_log[i].requires
                          /\ setup_log[j].dir = SIG_DIREC_SWITCHED
                          /\ ~setup_log[j].requires

\* a rule of two options was rejected by its `requires` and no other setup ran
C8_WitnessUnmet ==
    /\ last.called /\ last.nopts = 2 /\ Len(setup_log) = 1
    /\ setup_log[1].name = "requires" /\ setup_log[1].setup_ret = -4
    /\ setup_log[1].n = 1

\* a setup of the scan pass reported RequirementsUnmet
ScanUnmet ==
    \E j \in 1..Len(setup_log) : setup_log[j].requires /\ setup_log[j].setup_ret = -4

\* C9: SigInit returns NULL with sigerror_requires, sigerror_silent and
\* sigerror_ok all true exactly when a setup of the scan pass reported
\* RequirementsUnmet (-4); after every other outcome sigerror_requires is
\* false, whatever the call before left in the flags.
C9_RequiresFlags ==
    (last.called /\ ~last.aborted) =>
        /\ (/\ last.sig = NULL
            /\ de_ctx.sigerror_requires
            /\ de_ctx.sigerror_silent
            /\ de_ctx.sigerror_ok) <=> ScanUnmet
        /\ ~ScanUnmet => ~de_ctx.sigerror_requires

\* the second call on an engine was rejected for unmet requirements
C9_Witness ==
    /\ hist.calls = 2 /\ last.sig = NULL /\ ScanUnmet
    /\ de_ctx.sigerror_requires /\ de_ctx.sigerror_silent /\ de_ctx.sigerror_ok

\* the number of the SilentError that event j of the log is, among the
\* SilentErrors of its keyword type in this engine
Occurrence(j) ==
    hist.silent_before[setup_log[j].idx]
      + Cardinality({i \in 1..j : /\ setup_log[i].idx = setup_log[j].idx
                                  /\ setup_log[i].setup_ret = -2})

\* C10 (as the code has it): when a keyword setup returns SilentError, the
\* option parser returns an ordinary error (-1) for the first occurrence of
\* that keyword type in the engine and the silent result (-2) for every later
\* occurrence.
C10_FirstSilentErrorIsOrdinary ==
    \A j \in 1..Len(setup_log) :
        setup_log[j].setup_ret = -2 =>
            /\ setup_log[j].ret = (IF Occurrence(j) = 1 THEN -1 ELSE -2)
            /\ de_ctx.sm_types_silent_error[setup_log[j].idx]
            /\ ~last.aborted => (de_ctx.sigerror_silent <=> Occurrence(j) > 1)

\* a keyword type reported SilentError for the second time and the parser
\* returned the silent result
C10_Witness ==
    \E j \in 1..Len(setup_log) :
        /\ setup_log[j].setup_ret = -2
        /\ Occurrence(j) = 2
        /\ setup_log[j].ret = -2
        /\ de_ctx.sigerror_silent

\* C10 as stated: the silent result only for the first occurrence of a keyword
\* type, an ordinary error for every further one.
C10_FirstSilentErrorIsSilent ==
    \A j \in 1..Len(setup_log) :
        setup_log[j].setup_ret = -2 =>
            setup_log[j].ret = (IF Occurrence(j) = 1 THEN -2 ELSE -1)

----------------------------------------------------------------------------
(* Properties of the per-engine silent-error memory *)

\* the keyword types whose setup reported SilentError in the last call
SilentTypes == {setup_log[j].idx : j \in {i \in 1..Len(setup_log) : setup_log[i].setup_ret = -2}}

\* C11: within one engine, among the rules rejected because the setup of
\* keyword type K returned SilentError at most one, the first, is reported as a
\* non-silent error; every later one is rejected with sigerror_silent true;
\* and sm_types_silent_error[K], once set, is never cleared.
C11_OneLoudRejectionPerType ==
    /\ [](\A k \in 1..Len(sigmatch_table) :
             /\ hist.loud[k] <= 1
             /\ hist.loud[k] = 1 => de_ctx.sm_types_silent_error[k])
    /\ [](\A k \in SilentTypes :
             /\ last.sig = NULL
             /\ de_ctx.sm_types_silent_error[k]
             /\ hist.silent_before[k] >= 1 => (de_ctx.sigerror_silent /\ hist.loud[k] = 1))
    /\ [][\A k \in 1..Len(sigmatch_table) :
             de_ctx.sm_types_silent_error[k] => de_ctx'.sm_types_silent_error[k]]_vars

\* the third rule an engine rejected for a SilentError of the same keyword
\* type, after a rule of another keyword type had its first
C11_Witness ==
    /\ hist.calls = 4
    /\ \E k \in SilentTypes :
          /\ hist.silent_before[k] = 2 /\ hist.loud[k] = 1
          /\ de_ctx.sigerror_silent /\ last.sig = NULL
          /\ \E k2 \in 1..Len(sigmatch_table) : k2 # k /\ hist.loud[k2] = 1


----------------------------------------------------------------------------
(* Keyword setups working on the SigMatch lists of one signature *)

\* the engine is not touched by operations on the signature under construction
EngineIdle == UNCHANGED <<heap, de_ctx, last, setup_log, hist>>

\* two sticky buffer ids, as the buffer type registry hands them out
StickyLists == {DETECT_SM_LIST_MAX, DETECT_SM_LIST_MAX + 1}

AppendLists == {DETECT_SM_LIST_MATCH, DETECT_SM_LIST_PMATCH} \cup StickyLists

\* the SigMatches keyword setups append: type and ctx
SigMatchKinds ==
    {<<"DETECT_CONTENT", {}>>, <<"DETECT_CONTENT", {"DETECT_CONTENT_WITHIN"}>>,
     <<"DETECT_PCRE", {}>>}

\* a keyword setup appends a SigMatch
AppendSMToList(type, ctx, list, alloc_ok) ==
    /\ \E r \in {SCSigMatchAppendSMToList(cur_sig, sm_mem, type, ctx, list, alloc_ok)} :
          /\ cur_sig' = r.s
          /\ sm_mem' = r.mem
          /\ op' = [name |-> "SCSigMatchAppendSMToList", ret |-> r.ret,
                    count |-> op.count + 1, failed |-> op.failed \/ r.ret = NULL,
                    order |-> IF r.ret # NULL THEN Append(op.order, r.ret) ELSE op.order,
                    sm |-> r.ret, arg |-> <<type, list>>, was |-> cur_sig]
    /\ EngineIdle

\* a content modifier keyword moves the last content of the PMATCH list
ContentModifierBufferSetup(arg, sm_list, alproto) ==
    /\ \E r \in {DetectEngineContentModifierBufferSetup(cur_sig, sm_mem, arg, sm_list,
                                                        alproto)} :
          /\ cur_sig' = r.s
          /\ sm_mem' = r.mem
          /\ op' = [name |-> "DetectEngineContentModifierBufferSetup", ret |-> r.ret,
                    count |-> op.count + 1, failed |-> op.failed \/ r.ret < 0,
                    order |-> op.order,
                    sm |-> IF r.ret = 0
                           THEN DetectGetLastSMByListId(cur_sig, sm_mem,
                                    DETECT_SM_LIST_PMATCH, {"DETECT_CONTENT"})
                           ELSE NULL,
                    arg |-> <<sm_list, alproto>>, was |-> cur_sig]
    /\ EngineIdle

\* a keyword setup takes sm out of the classical list sm_list it hangs in
RemoveSMFromList(sm, sm_list) ==
    /\ sm \in Elems(ListOf(sm_mem, cur_sig.init_data.smlists[sm_list]))
    /\ \E r \in {SigMatchRemoveSMFromList(cur_sig, sm_mem, sm, sm_list)} :
          /\ cur_sig' = r.s
          /\ sm_mem' = r.mem
          /\ op' = [name |-> "SigMatchRemoveSMFromList", ret |-> 0,
                    count |-> op.count + 1, failed |-> op.failed,
                    order |-> op.order, sm |-> sm, arg |-> <<sm_list>>, was |-> cur_sig]
    /\ EngineIdle

NextSigMatch ==
    \/ \E k \in SigMatchKinds, list \in AppendLists, alloc_ok \in BOOLEAN :
          op.count < MaxSigOps /\ AppendSMToList(k[1], k[2], list, alloc_ok)
    \/ \E sm_list \in StickyLists :
          op.count < MaxSigOps /\ ContentModifierBufferSetup("", sm_list, ALPROTO_HTTP1)
    \/ \E sm \in 1..Len(sm_mem), sm_list \in 0..(DETECT_SM_LIST_MAX - 1) :
          op.count < MaxSigOps /\ RemoveSMFromList(sm, sm_list)

SpecSigMatch == Init /\ [][NextSigMatch]_vars


\* the (head, tail) pairs of the signature: its classical lists and its sticky
\* buffers
ListKeys(s) ==
    {<<"smlists", l>> : l \in 0..(DETECT_SM_LIST_MAX - 1)}
        \cup {<<"buffers", x>> : x \in 1..Len(s.init_data.buffers)}

HeadOf(s, k) ==
    IF k[1] = "smlists" THEN s.init_data.smlists[k[2]]
    ELSE s.init_data.buffers[k[2]].head

TailOf(s, k) ==
    IF k[1] = "smlists" THEN s.init_data.smlists_tail[k[2]]
    ELSE s.init_data.buffers[k[2]].tail

\* head and tail delimit a doubly linked list
WellFormedList(mem, head, tail) ==
    /\ (head = NULL) <=> (tail = NULL)
    /\ head # NULL =>
          /\ mem[head].prev = NULL
          /\ mem[tail].next = NULL
          /\ Len(ListOf(mem, head)) <= Len(mem)
          /\ ListOf(mem, head)[Len(ListOf(mem, head))] = tail
          /\ \A i \in 1..(Len(ListOf(mem, head)) - 1) :
                mem[ListOf(mem, head)[i + 1]].prev = ListOf(mem, head)[i]

\* the lists sm is reachable from
ListsHolding(s, mem, sm) ==
    {k \in ListKeys(s) : sm \in Elems(ListOf(mem, HeadOf(s, k)))}

\* C12: after any sequence of appends, content modifier transfers and
\* removals, every attached SigMatch is reachable from exactly one list (a
\* classical list or a sticky buffer), a SigMatch that is not attached from
\* none, and every list is a well-formed doubly linked list: the head has no
\* prev, the tail no next, next and prev are mutual inverses, and head and tail
\* are both NULL or both not NULL.
C12_ListsPartitionSigMatches ==
    /\ \A k \in ListKeys(cur_sig) :
          WellFormedList(sm_mem, HeadOf(cur_sig, k), TailOf(cur_sig, k))
    /\ \A sm \in 1..Len(sm_mem) :
          Cardinality(ListsHolding(cur_sig, sm_mem, sm))
              = IF sm_mem[sm].attached THEN 1 ELSE 0

\* a transfer that left a SigMatch behind in the PMATCH list and made a sticky
\* buffer of two
C12_Witness ==
    /\ op.name = "DetectEngineContentModifierBufferSetup" /\ op.ret = 0
    /\ cur_sig.init_data.smlists[DETECT_SM_LIST_PMATCH] # NULL
    /\ Len(ListOf(sm_mem, cur_sig.init_data.buffers[cur_sig.init_data.curbuf].head)) = 2
    /\ cur_sig.init_data.buffers[cur_sig.init_data.curbuf].tail = op.sm

\* a removal from the middle of a classical list of three
C12_WitnessRemoved ==
    /\ op.name = "SigMatchRemoveSMFromList"
    /\ ~sm_mem[op.sm].attached
    /\ sm_mem[op.sm].prev # NULL /\ sm_mem[op.sm].next # NULL

\* C13: a successful append gives the new SigMatch idx = sm_cnt and increments
\* sm_cnt, so the idx values are unique and increase in attachment order
\* whatever the list; a failed append leaves sm_cnt alone; a transfer between
\* lists (and a removal) leaves every idx and sm_cnt unchanged.
C13_IdxInAttachmentOrder ==
    /\ [](/\ \A i \in 1..Len(op.order) : sm_mem[op.order[i]].idx = i - 1
          /\ \A i, j \in 1..Len(op.order) :
                i < j => sm_mem[op.order[i]].idx < sm_mem[op.order[j]].idx
          /\ cur_sig.init_data.sm_cnt = Len(op.order))
    /\ [][/\ (op'.name = "SCSigMatchAppendSMToList" /\ op'.ret # NULL) =>
                /\ sm_mem'[op'.ret].idx = cur_sig.init_data.sm_cnt
                /\ cur_sig'.init_data.sm_cnt = cur_sig.init_data.sm_cnt + 1
          /\ (op'.name = "SCSigMatchAppendSMToList" /\ op'.ret = NULL) =>
                cur_sig'.init_data.sm_cnt = cur_sig.init_data.sm_cnt
          /\ op'.name \in {"DetectEngineContentModifierBufferSetup",
                           "SigMatchRemoveSMFromList"} =>
                /\ cur_sig'.init_data.sm_cnt = cur_sig.init_data.sm_cnt
                /\ Len(sm_mem') = Len(sm_mem)
                /\ \A sm \in 1..Len(sm_mem) : sm_mem'[sm].idx = sm_mem[sm].idx]_vars

\* a transfer of a SigMatch that is not the newest one, after a failed append
\* and appends to a classical list and to a sticky buffer
C13_Witness ==
    /\ op.name = "DetectEngineContentModifierBufferSetup" /\ op.ret = 0
    /\ op.failed
    /\ sm_mem[op.sm].idx = 0 /\ cur_sig.init_data.sm_cnt = 2
    /\ Len(cur_sig.init_data.buffers) = 1
    /\ cur_sig.init_data.buffers[1].head # op.sm


----------------------------------------------------------------------------
(* Header protocol and keyword setups working on the app-layer protocol *)

HeaderProtos == {"tcp", "tcp-pkt", "tcp-stream", "udp", "http", "tls", "bogus"}

\* the app-layer protocols keyword setups ask for, ALPROTO_FAILED for an
\* invalid one
SetupAlprotos == {ALPROTO_FAILED, ALPROTO_HTTP1, ALPROTO_TLS, ALPROTO_QUIC, ALPROTO_HTTP}

\* the alproto arrays keyword setups hand in: distinct valid alprotos, at most
\* SIG_ALPROTO_MAX of them
DistinctSeqs(S, n) ==
    {q \in UNION {[1..k -> S] : k \in 0..n} :
        \A i, j \in 1..Len(q) : i # j => q[i] # q[j]}

SetupAlprotoArrays == DistinctSeqs(SetupAlprotos \ {ALPROTO_FAILED}, SIG_ALPROTO_MAX)

\* the header's protocol is parsed first
ParseProto(p) ==
    /\ op.count = 0
    /\ \E r \in {SigParseProto(cur_sig, p, "")} :
          /\ cur_sig' = r.s
          /\ op' = [op EXCEPT !.name = "SigParseProto", !.ret = r.ret, !.count = 1,
                              !.failed = r.ret < 0, !.arg = <<p>>, !.was = cur_sig]
    /\ UNCHANGED sm_mem
    /\ EngineIdle

\* a keyword setup runs after the header, unless an earlier one failed, which
\* ends the parse
SetupRuns == op.count >= 1 /\ ~op.failed /\ op.count < MaxProtoOps

SetAppProto(alproto) ==
    /\ SetupRuns
    /\ \E r \in {SCDetectSignatureSetAppProto(cur_sig, alproto)} :
          /\ cur_sig' = r.s
          /\ op' = [op EXCEPT !.name = "SCDetectSignatureSetAppProto", !.ret = r.ret,
                              !.count = @ + 1, !.failed = r.ret < 0,
                              !.arg = <<alproto>>, !.was = cur_sig]
    /\ UNCHANGED sm_mem
    /\ EngineIdle

SetMultiAppProto(alprotos) ==
    /\ SetupRuns
    /\ \E r \in {DetectSignatureSetMultiAppProto(cur_sig, alprotos)} :
          /\ cur_sig' = r.s
          /\ op' = [op EXCEPT !.name = "DetectSignatureSetMultiAppProto", !.ret = r.ret,
                              !.count = @ + 1, !.failed = r.ret < 0,
                              !.arg = alprotos, !.was = cur_sig]
    /\ UNCHANGED sm_mem
    /\ EngineIdle

NextAlproto ==
    \/ \E p \in HeaderProtos : ParseProto(p)
    \/ \E alproto \in SetupAlprotos : SetAppProto(alproto)
    \/ \E alprotos \in SetupAlprotoArrays : SetMultiAppProto(alprotos)
    \/ SetupRuns /\ AppendSMToList("DETECT_CONTENT", {}, DETECT_SM_LIST_PMATCH, TRUE)
    \/ \E alproto \in {ALPROTO_HTTP1, ALPROTO_TLS} :
          SetupRuns /\ ContentModifierBufferSetup("", DETECT_SM_LIST_MAX, alproto)

SpecAlproto == Init /\ [][NextAlproto]_vars


\* C14: in every state reached through the header's protocol and keyword
\* setups, s->alproto and init_data->alprotos[0] are never both set: while a
\* multi-alproto set is stored, s->alproto is ALPROTO_UNKNOWN.
C14_AlprotoUnsetWhileMultiStored ==
    ~(cur_sig.alproto # ALPROTO_UNKNOWN
      /\ cur_sig.init_data.alprotos[1] # ALPROTO_UNKNOWN)


\* the first n entries of a set, the others not
CompactedTo(a, n) ==
    \A i \in 1..SIG_ALPROTO_MAX : (a[i] # ALPROTO_UNKNOWN) <=> (i <= n)

\* what a DetectSignatureSetMultiAppProto call with the array arg that returned
\* ret made of the signature was: now it is now
MultiAppProtoNarrows(was, arg, ret, now) ==
    /\ (was.alproto = ALPROTO_UNKNOWN /\ StoredAlprotos(was) = {}) =>
          /\ Len(arg) = 0 => (ret = -1 /\ now = was)
          /\ Len(arg) = 1 =>
                /\ ret = SCDetectSignatureSetAppProto(was, arg[1]).ret
                /\ now = SCDetectSignatureSetAppProto(was, arg[1]).s
                /\ AppLayerProtoDetectGetProtoName(arg[1]) # NULL =>
                      (ret = 0 /\ now.alproto = arg[1] /\ StoredAlprotos(now) = {})
          /\ Len(arg) >= 2 =>
                /\ ret = 0
                /\ now.alproto = ALPROTO_UNKNOWN
                /\ StoredAlprotos(now) = Elems(arg)
                /\ \A i \in 1..Len(arg) : now.init_data.alprotos[i] = arg[i]
    /\ (was.alproto = ALPROTO_UNKNOWN /\ was.init_data.alprotos[1] # ALPROTO_UNKNOWN) =>
          /\ StoredAlprotos(was) \cap Elems(arg) = {} => ret = -1
          /\ Cardinality(StoredAlprotos(was) \cap Elems(arg)) = 1 =>
                /\ now.init_data.alprotos[1] = ALPROTO_UNKNOWN
                /\ StoredAlprotos(now) = {}
                /\ \A a \in StoredAlprotos(was) \cap Elems(arg) :
                      IF AppLayerProtoDetectGetProtoName(a) # NULL
                      THEN ret = 0 /\ now.alproto = a
                      ELSE ret = -1 /\ now.alproto = ALPROTO_UNKNOWN
          /\ Cardinality(StoredAlprotos(was) \cap Elems(arg)) >= 2 =>
                /\ ret = 0
                /\ now.alproto = ALPROTO_UNKNOWN
                /\ StoredAlprotos(now) = StoredAlprotos(was) \cap Elems(arg)
                /\ CompactedTo(now.init_data.alprotos,
                               Cardinality(StoredAlprotos(was) \cap Elems(arg)))
          /\ StoredAlprotos(now) \subseteq StoredAlprotos(was)
    /\ was.alproto # ALPROTO_UNKNOWN =>
          /\ (ret = 0) <=> (was.alproto \in Elems(arg))
          /\ ret \in {0, -1}
          /\ now = was

\* C15: DetectSignatureSetMultiAppProto narrows monotonically.  With nothing
\* set, an empty array fails, a single alproto is set through
\* SCDetectSignatureSetAppProto and two or more are stored.  With a multi-set
\* stored, the stored set becomes its intersection with the new one, compacted
\* to the front of alprotos[]; an empty intersection fails and a single alproto
\* is handed to SCDetectSignatureSetAppProto with alprotos[0] cleared, which
\* makes it s->alproto.  With s->alproto set, the call succeeds iff the array
\* contains s->alproto.  SCDetectSignatureSetAppProto with an alproto that is
\* not in the stored multi-set fails.
C15_MultiAppProtoNarrows ==
    [][/\ op'.name = "DetectSignatureSetMultiAppProto" =>
             MultiAppProtoNarrows(cur_sig, op'.arg, op'.ret, cur_sig')
       /\ (/\ op'.name = "SCDetectSignatureSetAppProto"
           /\ cur_sig.init_data.alprotos[1] # ALPROTO_UNKNOWN
           /\ op'.arg[1] \notin StoredAlprotos(cur_sig)) =>
             (op'.ret = -1 /\ cur_sig' = cur_sig)]_vars

\* a stored set of three narrowed to two, the last entry moved to the front
C15_Witness ==
    /\ op.name = "DetectSignatureSetMultiAppProto" /\ op.ret = 0
    /\ Cardinality(StoredAlprotos(op.was)) = 3
    /\ op.was.init_data.alprotos[2] \notin Elems(op.arg)
    /\ cur_sig.init_data.alprotos[2] = op.was.init_data.alprotos[3]
    /\ Cardinality(StoredAlprotos(cur_sig)) = 2

\* a stored set narrowed to one alproto, which became s->alproto
C15_WitnessCollapse ==
    /\ op.name = "DetectSignatureSetMultiAppProto" /\ op.ret = 0
    /\ op.was.alproto = ALPROTO_UNKNOWN
    /\ Cardinality(StoredAlprotos(op.was)) >= 2
    /\ cur_sig.alproto \in StoredAlprotos(op.was)
    /\ StoredAlprotos(cur_sig) = {}


----------------------------------------------------------------------------
(* Direction consolidation, on the tallies SigValidateCheckBuffers made *)

\* the flags of a rule that matter for its direction: => in the header, and
\* the directions a hook or a flow keyword gave it
DirectionFlags == {"SIG_FLAG_TXBOTHDIR", "SIG_FLAG_TOSERVER", "SIG_FLAG_TOCLIENT"}

\* a parsed signature and the tallies ts_excl, tc_excl, dir_amb of its buffers
InitDirection ==
    /\ \E f \in SUBSET DirectionFlags : cur_sig = [SigAllocInitData EXCEPT !.flags = f]
    /\ \E ts_excl, tc_excl, dir_amb \in 0..MaxExcl :
          op = [NoOp EXCEPT !.arg = <<ts_excl, tc_excl, dir_amb>>]
    /\ sm_mem = <<>>
    /\ EngineInit

ConsolidateDirection ==
    /\ op.count = 0
    /\ \E r \in {SigConsolidateDirection(cur_sig, op.arg[1], op.arg[2], op.arg[3])} :
          /\ cur_sig' = r.s
          /\ op' = [op EXCEPT !.name = "SigConsolidateDirection", !.ret = r.ret,
                              !.count = 1, !.failed = r.ret = 0, !.was = cur_sig]
    /\ UNCHANGED sm_mem
    /\ EngineIdle

NextDirection == ConsolidateDirection

SpecDirection == InitDirection /\ [][NextDirection]_vars

\* the outcome for a rule without => : rejected with exclusive buffers in both
\* directions, the implicit direction with exclusive buffers in one, nothing
\* changed with none
OneWayOutcome(was, ts_excl, tc_excl, ret, now, applies) ==
    /\ (ts_excl > 0 /\ tc_excl > 0) => (ret = 0 /\ now = was)
    /\ (ts_excl > 0 /\ tc_excl = 0) =>
          IF applies \/ "SIG_FLAG_TOSERVER" \in was.flags \/ "SIG_FLAG_TOCLIENT" \notin was.flags
          THEN /\ ret = 1
               /\ now = [was EXCEPT !.flags = (@ \ {"SIG_FLAG_TOCLIENT"})
                                                 \cup {"SIG_FLAG_TOSERVER"}]
          ELSE ret = 0 /\ now = was
    /\ (ts_excl = 0 /\ tc_excl > 0) =>
          IF applies \/ "SIG_FLAG_TOCLIENT" \in was.flags \/ "SIG_FLAG_TOSERVER" \notin was.flags
          THEN /\ ret = 1
               /\ now = [was EXCEPT !.flags = (@ \ {"SIG_FLAG_TOSERVER"})
                                                 \cup {"SIG_FLAG_TOCLIENT"}]
          ELSE ret = 0 /\ now = was
    /\ (ts_excl = 0 /\ tc_excl = 0) => (ret = 1 /\ now = was)

\* the outcome for a => rule: accepted iff there are exclusive buffers in both
\* directions and no ambiguous one; never changed
BothWaysOutcome(was, ts_excl, tc_excl, dir_amb, ret, now) ==
    /\ (ret = 1) <=> (ts_excl > 0 /\ tc_excl > 0 /\ dir_amb = 0)
    /\ ret \in {0, 1}
    /\ now = was

\* C16 (as the code has it): for a rule without TXBOTHDIR
\* SigConsolidateDirection rejects when ts_excl > 0 and tc_excl > 0, changes
\* nothing when both are 0, and with only ts_excl > 0 (only tc_excl > 0) gives
\* the rule the implicit to-server (to-client) direction, unless the rule
\* already has the opposite direction alone: then it is rejected.  A TXBOTHDIR
\* rule is accepted iff ts_excl > 0, tc_excl > 0 and dir_amb = 0.
C16_DirectionFromTalliesAndFlow ==
    op.name = "SigConsolidateDirection" =>
        IF "SIG_FLAG_TXBOTHDIR" \in op.was.flags
        THEN BothWaysOutcome(op.was, op.arg[1], op.arg[2], op.arg[3], op.ret, cur_sig)
        ELSE OneWayOutcome(op.was, op.arg[1], op.arg[2], op.ret, cur_sig, FALSE)

\* a to-client rule with buffers exclusive to the to-server direction, rejected
C16_Witness ==
    /\ op.name = "SigConsolidateDirection" /\ op.ret = 0
    /\ op.was.flags = {"SIG_FLAG_TOCLIENT"}
    /\ op.arg[1] > 0 /\ op.arg[2] = 0

\* C16 (as claimed): SigConsolidateDirection decides from TXBOTHDIR, ts_excl,
\* tc_excl and dir_amb alone: without TXBOTHDIR it rejects when ts_excl > 0
\* and tc_excl > 0, applies the implicit to-server direction when only
\* ts_excl > 0, the implicit to-client direction when only tc_excl > 0, and
\* changes nothing when both are 0; with TXBOTHDIR it accepts iff ts_excl > 0,
\* tc_excl > 0 and dir_amb = 0.
C16_DirectionFromTalliesAlone ==
    op.name = "SigConsolidateDirection" =>
        IF "SIG_FLAG_TXBOTHDIR" \in op.was.flags
        THEN BothWaysOutcome(op.was, op.arg[1], op.arg[2], op.arg[3], op.ret, cur_sig)
        ELSE OneWayOutcome(op.was, op.arg[1], op.arg[2], op.ret, cur_sig, TRUE)


----------------------------------------------------------------------------
(* Validation and consolidation of a parsed signature *)

\* the sequences over S of at most n elements
SeqsUpTo(S, n) == UNION {[1..k -> S] : k \in 0..n}

\* what the setup of a keyword leaves in the signature: the type and the ctx
\* of its SigMatch, and the flags it sets.  depth and offset mark the content
\* they follow, dsize requires the packet, flow:only_stream the stream
PayloadKinds ==
    {<<"DETECT_CONTENT", {}, {}>>,
     <<"DETECT_CONTENT", {"DETECT_CONTENT_DEPTH"}, {}>>,
     <<"DETECT_CONTENT", {"DETECT_CONTENT_OFFSET"}, {}>>,
     <<"DETECT_PCRE", {}, {}>>}

MatchKinds ==
    {<<"DETECT_STREAM_SIZE", {}, {}>>,
     <<"DETECT_DSIZE", {}, {"SIG_FLAG_REQUIRE_PACKET"}>>,
     <<"DETECT_FLOW", {}, {"SIG_FLAG_REQUIRE_STREAM"}>>}

\* the keywords of kinds set up in order, each appending to the list
RECURSIVE SetupAll(_, _, _)
SetupAll(r, kinds, list) ==
    IF kinds = <<>> THEN r
    ELSE SetupAll(
            SCSigMatchAppendSMToList(
               [r.s EXCEPT !.flags = @ \cup Head(kinds)[3]], r.mem,
               Head(kinds)[1], Head(kinds)[2], list, TRUE),
            Tail(kinds), list)

\* a rule without a direction is for both
DefaultDirection(s) ==
    IF /\ "SIG_FLAG_INIT_FLOW" \notin s.init_data.init_flags
       /\ s.flags \cap {"SIG_FLAG_TOSERVER", "SIG_FLAG_TOCLIENT"} = {}
    THEN [s EXCEPT !.flags = @ \cup {"SIG_FLAG_TOSERVER", "SIG_FLAG_TOCLIENT"}]
    ELSE s

\* the signature allocated for a rule, as a firewall rule or not
SigAllocFor(firewall_rule) ==
    IF firewall_rule
    THEN [SigAllocInitData EXCEPT !.init_data.firewall_rule = TRUE,
                                  !.flags = @ \cup {"SIG_FLAG_FIREWALL"}]
    ELSE SigAllocInitData

\* SigInitHelper up to validation: the signature of a rule with the header
\* "p:h", the payload keywords pm and the packet keywords mt
ParsedSignature(firewall_rule, p, h, pm, mt) ==
    LET hdr == SigParseProto(SigAllocFor(firewall_rule), p, h)
        opts == SetupAll(SetupAll(SigRes(NULL, hdr.s, <<>>), pm, DETECT_SM_LIST_PMATCH),
                         mt, DETECT_SM_LIST_MATCH)
    IN  [ret |-> hdr.ret, s |-> DefaultDirection(opts.s), mem |-> opts.mem]

TcpBufferProtos == {"tcp", "tcp-pkt", "tcp-stream", "udp", "http"}

\* what the external stages of validation answer for a rule without a hook
TcpBufferExt ==
    [buffers_ok : {TRUE}, ts_excl : {0, 1}, tc_excl : {0, 1}, dir_amb : {0},
     type : {"SIG_TYPE_PKT_STREAM", "SIG_TYPE_APP_TX"}, iponly_ok : {TRUE}]
    \cup [buffers_ok : {FALSE}, ts_excl : {0}, tc_excl : {0}, dir_amb : {0},
          type : {"SIG_TYPE_PKT_STREAM"}, iponly_ok : {TRUE}]
    \cup [buffers_ok : {TRUE}, ts_excl : {0}, tc_excl : {0}, dir_amb : {0},
          type : {"SIG_TYPE_IPONLY"}, iponly_ok : BOOLEAN]

\* a parsed signature, about to be validated
InitTcpBuffer ==
    /\ \E p \in TcpBufferProtos, pm \in SeqsUpTo(PayloadKinds, MaxPayload),
          mt \in SeqsUpTo(MatchKinds, MaxMatch) :
          \E r \in {ParsedSignature(FALSE, p, "", pm, mt)} :
             /\ r.ret = 0
             /\ cur_sig = r.s
             /\ sm_mem = r.mem
    /\ op = NoOp
    /\ EngineInit

ConsolidateTcpBuffer ==
    /\ op.count = 0
    /\ cur_sig' = SigConsolidateTcpBuffer(cur_sig, sm_mem)
    /\ op' = [op EXCEPT !.name = "SigConsolidateTcpBuffer", !.ret = 1, !.count = 1,
                        !.was = cur_sig]
    /\ UNCHANGED sm_mem
    /\ EngineIdle

ValidateConsolidate(ext) ==
    /\ op.count = 0
    /\ \E r \in {SigValidateConsolidateStages(cur_sig, sm_mem, ext)} :
          /\ cur_sig' = r.s
          /\ op' = [op EXCEPT !.name = "SigValidateConsolidate", !.ret = r.ret,
                              !.count = 1, !.failed = r.ret = 0,
                              !.arg = <<ext, r.stage, r.abort>>, !.was = cur_sig]
    /\ UNCHANGED sm_mem
    /\ EngineIdle

NextTcpBuffer ==
    \/ ConsolidateTcpBuffer
    \/ \E ext \in TcpBufferExt : ValidateConsolidate(ext)

SpecTcpBuffer == InitTcpBuffer /\ [][NextTcpBuffer]_vars

RequireFlags == {"SIG_FLAG_REQUIRE_PACKET", "SIG_FLAG_REQUIRE_STREAM"}

\* the SigMatches of a list of the signature
SigMatchesOf(s, list) == {sm_mem[ListOf(sm_mem, s.init_data.smlists[list])[i]] :
                             i \in 1..Len(ListOf(sm_mem, s.init_data.smlists[list]))}

\* the signature is a TCP payload rule that requires neither packet nor stream
TcpPayloadUndecided(s) ==
    /\ "IPPROTO_TCP" \in s.proto.proto
    /\ SigMatchesOf(s, DETECT_SM_LIST_PMATCH) # {}
    /\ s.flags \cap RequireFlags = {}

\* a content with depth or offset in PMATCH, or a stream_size in MATCH
NeedsPacketToo(s) ==
    \/ \E sm \in SigMatchesOf(s, DETECT_SM_LIST_PMATCH) :
          /\ sm.type = "DETECT_CONTENT"
          /\ \/ "DETECT_CONTENT_DEPTH" \in sm.ctx
             \/ "DETECT_CONTENT_OFFSET" \in sm.ctx
    \/ \E sm \in SigMatchesOf(s, DETECT_SM_LIST_MATCH) : sm.type = "DETECT_STREAM_SIZE"

\* C17: SigConsolidateTcpBuffer changes the signature only when its protocols
\* include TCP, PMATCH is non-empty and neither REQUIRE_PACKET nor
\* REQUIRE_STREAM is set; it then sets REQUIRE_STREAM, and REQUIRE_PACKET too
\* iff a DETECT_CONTENT of PMATCH has DEPTH or OFFSET or a DETECT_STREAM_SIZE is
\* in MATCH.  So a TCP rule with a plain content gets STREAM only, one with
\* offset or depth gets both, and one that requires PACKET keeps PACKET only.
C17_TcpBufferConsolidation ==
    op.name = "SigConsolidateTcpBuffer" =>
        /\ IF TcpPayloadUndecided(op.was)
           THEN cur_sig = [op.was EXCEPT !.flags =
                              @ \cup {"SIG_FLAG_REQUIRE_STREAM"}
                                \cup (IF NeedsPacketToo(op.was)
                                      THEN {"SIG_FLAG_REQUIRE_PACKET"} ELSE {})]
           ELSE cur_sig = op.was
        /\ op.was.flags \cap RequireFlags = {"SIG_FLAG_REQUIRE_PACKET"}
              => cur_sig.flags \cap RequireFlags = {"SIG_FLAG_REQUIRE_PACKET"}
        /\ (/\ "IPPROTO_TCP" \in op.was.proto.proto
            /\ op.was.flags \cap RequireFlags = {}
            /\ SigMatchesOf(op.was, DETECT_SM_LIST_MATCH) = {}
            /\ SigMatchesOf(op.was, DETECT_SM_LIST_PMATCH) # {}
            /\ \A sm \in SigMatchesOf(op.was, DETECT_SM_LIST_PMATCH) : sm.ctx = {})
              => cur_sig.flags \cap RequireFlags = {"SIG_FLAG_REQUIRE_STREAM"}

\* a TCP rule whose content has a depth gets both flags
C17_Witness ==
    /\ op.name = "SigConsolidateTcpBuffer"
    /\ op.was.flags \cap RequireFlags = {}
    /\ \E sm \in SigMatchesOf(op.was, DETECT_SM_LIST_PMATCH) :
          "DETECT_CONTENT_DEPTH" \in sm.ctx
    /\ SigMatchesOf(op.was, DETECT_SM_LIST_MATCH) = {}
    /\ RequireFlags \subseteq cur_sig.flags

\* a TCP rule with a plain content gets the stream only
C17_WitnessPlain ==
    /\ op.name = "SigConsolidateTcpBuffer"
    /\ op.was.flags \cap RequireFlags = {}
    /\ cur_sig.flags \cap RequireFlags = {"SIG_FLAG_REQUIRE_STREAM"}

\* a TCP rule with a content and a dsize keeps the packet only
C17_WitnessDsize ==
    /\ op.name = "SigConsolidateTcpBuffer"
    /\ "IPPROTO_TCP" \in op.was.proto.proto
    /\ SigMatchesOf(op.was, DETECT_SM_LIST_PMATCH) # {}
    /\ \E sm \in SigMatchesOf(op.was, DETECT_SM_LIST_MATCH) : sm.type = "DETECT_DSIZE"
    /\ cur_sig.flags \cap RequireFlags = {"SIG_FLAG_REQUIRE_PACKET"}

\* a stream_size alone adds the packet to a plain content
C17_WitnessStreamSize ==
    /\ op.name = "SigConsolidateTcpBuffer"
    /\ \A sm \in SigMatchesOf(op.was, DETECT_SM_LIST_PMATCH) : sm.ctx = {}
    /\ op.was.flags \cap RequireFlags = {}
    /\ RequireFlags \subseteq cur_sig.flags

\* C18: a signature that reaches validation with both REQUIRE_PACKET and
\* REQUIRE_STREAM set is rejected; so a signature that validation accepted has
\* both only if SigConsolidateTcpBuffer set them: it had neither, TCP is among
\* its protocols, PMATCH is non-empty, and a content has depth or offset or a
\* stream_size is in MATCH.
C18_PacketStreamConflict ==
    op.name = "SigValidateConsolidate" =>
        /\ RequireFlags \subseteq op.was.flags => op.ret = 0 /\ cur_sig = op.was
        /\ (op.ret = 1 /\ RequireFlags \subseteq cur_sig.flags) =>
              /\ TcpPayloadUndecided(op.was)
              /\ NeedsPacketToo(op.was)

\* a tcp-pkt rule with flow:only_stream, rejected by SigValidatePacketStream
C18_Witness ==
    /\ op.name = "SigValidateConsolidate"
    /\ RequireFlags \subseteq op.was.flags
    /\ op.ret = 0
    /\ op.arg[2] = "SigValidatePacketStream"

\* a rule accepted with both flags, set in consolidation
C18_WitnessBoth ==
    /\ op.name = "SigValidateConsolidate"
    /\ op.ret = 1
    /\ RequireFlags \subseteq cur_sig.flags


----------------------------------------------------------------------------
(* The detect table of a signature *)

\* headers "p:h" of rules, h = "" for none; SigParseProto refuses some
TableHeaders ==
    {<<"tcp", "">>, <<"tcp", "pre_stream">>, <<"tcp", "pre_flow">>, <<"tcp", "all">>,
     <<"tcp", "flow_start">>, <<"tcp", "bogus">>, <<"udp", "pre_flow">>,
     <<"http", "">>, <<"http", "request_started">>, <<"http", "response_complete">>,
     <<"http", "request_headers">>, <<"http", "bogus">>, <<"tls", "response_started">>}

\* what the external stages of validation answer
TableExt ==
    [buffers_ok : {TRUE}, ts_excl : {0}, tc_excl : {0}, dir_amb : {0},
     type : SigTypes, iponly_ok : {TRUE}]
    \cup [buffers_ok : {FALSE}, ts_excl : {0}, tc_excl : {0}, dir_amb : {0},
          type : {"SIG_TYPE_PKT"}, iponly_ok : {TRUE}]

\* a parsed signature, loaded as a firewall rule or not, with or without a
\* flow keyword
InitTable ==
    /\ \E firewall_rule \in BOOLEAN, ph \in TableHeaders,
          mt \in SeqsUpTo({<<"DETECT_FLOW", {}, {}>>}, MaxMatch) :
          \E r \in {ParsedSignature(firewall_rule, ph[1], ph[2], <<>>, mt)} :
             /\ r.ret = 0
             /\ cur_sig = r.s
             /\ sm_mem = r.mem
    /\ op = NoOp
    /\ EngineInit

\* DetectRuleSetTable on the signature, whatever its type
RuleSetTable(type) ==
    /\ op.count = 0
    /\ \E r \in {DetectRuleSetTable([cur_sig EXCEPT !.type = type])} :
          /\ cur_sig' = r.s
          /\ op' = [op EXCEPT !.name = "DetectRuleSetTable", !.ret = 1, !.count = 1,
                              !.failed = r.abort, !.arg = <<type, "", r.abort>>,
                              !.was = cur_sig]
    /\ UNCHANGED sm_mem
    /\ EngineIdle

NextTable ==
    \/ \E type \in SigTypes : RuleSetTable(type)
    \/ \E ext \in TableExt : ValidateConsolidate(ext)

SpecTable == InitTable /\ [][NextTable]_vars

\* the detect table by firewall, type and hook
TableFor(firewall, type, hook) ==
    IF firewall /\ type = "SIG_TYPE_PKT"
    THEN IF hook.type = "SIGNATURE_HOOK_TYPE_PKT" /\ hook.ph = "SIGNATURE_HOOK_PKT_PRE_STREAM"
         THEN "DETECT_TABLE_PACKET_PRE_STREAM"
         ELSE IF hook.type = "SIGNATURE_HOOK_TYPE_PKT"
                 /\ hook.ph = "SIGNATURE_HOOK_PKT_PRE_FLOW"
         THEN "DETECT_TABLE_PACKET_PRE_FLOW"
         ELSE "DETECT_TABLE_PACKET_FILTER"
    ELSE IF firewall /\ type = "SIG_TYPE_APP_TX" THEN "DETECT_TABLE_APP_FILTER"
    ELSE IF ~firewall /\ type = "SIG_TYPE_APP_TX" THEN "DETECT_TABLE_APP_TD"
    ELSE "DETECT_TABLE_PACKET_TD"

\* the stages of validation that follow DetectRuleSetTable
AfterSetTable ==
    {"SigValidateFileHandling", "DetectRuleValidateTable", "IPOnlySigParseAddress", ""}

C19_WitnessApp ==
    /\ op.name = "SigValidateConsolidate"
    /\ op.ret = 1
    /\ "SIG_FLAG_FIREWALL" \in cur_sig.flags
    /\ cur_sig.detect_table = "DETECT_TABLE_APP_FILTER"

\* a rule with a packet hook that is no firewall rule, in PACKET_TD
C19_WitnessThreatDetect ==
    /\ op.name = "DetectRuleSetTable"
    /\ "SIG_FLAG_FIREWALL" \notin cur_sig.flags
    /\ cur_sig.init_data.hook.ph = "SIGNATURE_HOOK_PKT_PRE_STREAM"
    /\ cur_sig.detect_table = "DETECT_TABLE_PACKET_TD"

\* a pre_flow firewall rule with a flow keyword, refused for its table
C19_WitnessKeywordTable ==
    /\ op.name = "SigValidateConsolidate"
    /\ op.ret = 0
    /\ op.arg[2] = "DetectRuleValidateTable"
    /\ cur_sig.detect_table = "DETECT_TABLE_PACKET_PRE_FLOW"


----------------------------------------------------------------------------
(* The action of a rule *)

\* the actions of rule headers: the names in several cases, with scopes that
\* are and are not allowed, names that are none, and strings beyond the 31
\* characters SigParseAction keeps
ActionStrings ==
    {<<"a", "l", "e", "r", "t">>,
     <<"A", "L", "E", "R", "T">>,
     <<"A", "l", "e", "r", "t">>,
     <<"d", "r", "o", "p">>,
     <<"D", "r", "o", "p">>,
     <<"D", "R", "O", "P", ":", "f", "l", "o", "w">>,
     <<"d", "r", "o", "p", ":", "p", "a", "c", "k", "e", "t">>,
     <<"d", "r", "o", "p", ":", "F", "l", "o", "w">>,
     <<"d", "r", "o", "p", ":", "t", "x">>,
     <<"p", "a", "s", "s">>,
     <<"p", "a", "s", "s", ":", "f", "l", "o", "w">>,
     <<"P", "A", "S", "S", ":", "p", "a", "c", "k", "e", "t">>,
     <<"r", "e", "j", "e", "c", "t">>,
     <<"R", "e", "j", "e", "c", "t">>,
     <<"r", "e", "j", "e", "c", "t", "s", "r", "c">>,
     <<"r", "e", "j", "e", "c", "t", "d", "s", "t">>,
     <<"R", "E", "J", "E", "C", "T", "D", "S", "T">>,
     <<"r", "e", "j", "e", "c", "t", "b", "o", "t", "h">>,
     <<"r", "e", "j", "e", "c", "t", ":", "f", "l", "o", "w">>,
     <<"r", "e", "j", "e", "c", "t", "s", "r", "c", ":", "h", "o", "o", "k">>,
     <<"c", "o", "n", "f", "i", "g">>,
     <<"c", "o", "n", "f", "i", "g", ":", "p", "a", "c", "k", "e", "t">>,
     <<"c", "o", "n", "f", "i", "g", ":", "f", "l", "o", "w">>,
     <<"a", "c", "c", "e", "p", "t">>,
     <<"a", "c", "c", "e", "p", "t", ":", "h", "o", "o", "k">>,
     <<"a", "c", "c", "e", "p", "t", ":", "t", "x">>,
     <<"A", "C", "C", "E", "P", "T", ":", "p", "a", "c", "k", "e", "t">>,
     <<"a", "c", "c", "e", "p", "t", ":", "f", "l", "o", "w">>,
     <<"a", "c", "c", "e", "p", "t", ":", "b", "o", "g", "u", "s">>,
     <<"a", "l", "e", "r", "t", ":", "p", "a", "c", "k", "e", "t">>,
     <<"l", "o", "g">>,
     <<"a", "l", "e", "r">>,
     <<"a", "l", "e", "r", "t", "s">>,
     <<>>,
     <<":">>,
     <<":", "a", "l", "e", "r", "t">>,
     <<"a", "l", "e", "r", "t", ":">>,
     <<"d", "r", "o", "p", ":", "f", "l", "o", "w", ":", "t", "x">>,
     <<":", ":", ":", ":", ":", ":", ":", ":", ":", ":", ":", ":", ":", ":", ":", ":", ":", ":", ":", ":", ":", ":", ":", ":", ":", ":", "a", "l", "e", "r", "t", "s">>,
     <<"a", "l", "e", "r", "t", "a", "l", "e", "r", "t", "a", "l", "e", "r", "t", "a", "l", "e", "r", "t", "a", "l", "e", "r", "t", "a", "l", "e", "r", "t", "a", "l", "e", "r", "t">>}

\* every action name with every scope, and with two that are none
ActionNames ==
    {<<"a", "l", "e", "r", "t">>,
     <<"d", "r", "o", "p">>,
     <<"p", "a", "s", "s">>,
     <<"r", "e", "j", "e", "c", "t">>,
     <<"r", "e", "j", "e", "c", "t", "s", "r", "c">>,
     <<"r", "e", "j", "e", "c", "t", "d", "s", "t">>,
     <<"r", "e", "j", "e", "c", "t", "b", "o", "t", "h">>,
     <<"c", "o", "n", "f", "i", "g">>,
     <<"a", "c", "c", "e", "p", "t">>,
     <<"D", "r", "o", "p">>}

ScopeNames ==
    {<<"p", "a", "c", "k", "e", "t">>, <<"f", "l", "o", "w">>, <<"t", "x">>, <<"h", "o", "o", "k">>,
     <<"b", "o", "g", "u", "s">>, <<"F", "l", "o", "w">>}

ScopedActionStrings == {n \o <<":">> \o sc : n \in ActionNames, sc \in ScopeNames}

\* a signature just allocated, as a firewall rule or not, the action of its
\* rule, and whether rejects can be sent
InitAction ==
    /\ \E firewall_rule \in BOOLEAN : cur_sig = SigAllocFor(firewall_rule)
    /\ \E action_in \in ActionStrings \cup ScopedActionStrings, inject \in BOOLEAN :
          op = [NoOp EXCEPT !.arg = <<action_in, inject>>]
    /\ sm_mem = <<>>
    /\ EngineInit

ParseAction ==
    /\ op.count = 0
    /\ \E r \in {SigParseAction(cur_sig, op.arg[1], op.arg[2])} :
          /\ cur_sig' = r.s
          /\ op' = [op EXCEPT !.name = "SigParseAction", !.ret = r.ret, !.count = 1,
                              !.failed = r.ret < 0, !.was = cur_sig]
    /\ UNCHANGED sm_mem
    /\ EngineIdle

NextAction == ParseAction

SpecAction == InitAction /\ [][NextAction]_vars

\* the names of the actions and the bits of their flags
ActionFlagsTable ==
    {<<<<"a", "l", "e", "r", "t">>, {ACTION_ALERT}>>,
     <<<<"d", "r", "o", "p">>, {ACTION_DROP, ACTION_ALERT}>>,
     <<<<"p", "a", "s", "s">>, {ACTION_PASS}>>,
     <<<<"r", "e", "j", "e", "c", "t">>, {ACTION_REJECT, ACTION_DROP, ACTION_ALERT}>>,
     <<<<"r", "e", "j", "e", "c", "t", "s", "r", "c">>, {ACTION_REJECT, ACTION_DROP, ACTION_ALERT}>>,
     <<<<"r", "e", "j", "e", "c", "t", "d", "s", "t">>, {ACTION_REJECT_DST, ACTION_DROP, ACTION_ALERT}>>,
     <<<<"r", "e", "j", "e", "c", "t", "b", "o", "t", "h">>, {ACTION_REJECT_BOTH, ACTION_DROP, ACTION_ALERT}>>,
     <<<<"c", "o", "n", "f", "i", "g">>, {ACTION_CONFIG}>>,
     <<<<"a", "c", "c", "e", "p", "t">>, {ACTION_ACCEPT}>>}

\* the name of an action: what is before the ":" of its first 31 characters
ActionName(action_in) ==
    IF \E i \in 1..Len(strlcpy(action_in, 32)) : strlcpy(action_in, 32)[i] = ":"
    THEN strtok_r(strlcpy(action_in, 32), ":").tok
    ELSE strlcpy(action_in, 32)

\* the rows of the table for a name, whatever the case of its letters
RowsFor(name) ==
    {row \in ActionFlagsTable :
        /\ Len(row[1]) = Len(name)
        /\ \A i \in 1..Len(name) :
              \/ row[1][i] = name[i]
              \/ name[i] \in DOMAIN UpperToLower /\ UpperToLower[name[i]] = row[1][i]}

\* C20: the action name, compared without regard to case, determines the
\* action flags: a parsed action has the flags of its name in the table
\* (alert ALERT; drop DROP|ALERT; pass PASS; reject and rejectsrc
\* REJECT|DROP|ALERT; rejectdst REJECT_DST|DROP|ALERT; rejectboth
\* REJECT_BOTH|DROP|ALERT; config CONFIG; accept ACCEPT), a reject is parsed
\* only when rejects can be sent, any other name is an error, and an error
\* leaves s->action unset.  A name of the table without a scope, in a rule
\* that is no firewall rule, is parsed unless it is accept or a reject that
\* cannot be sent.
C20_ActionFlagsFromName ==
    op.name = "SigParseAction" =>
        /\ op.ret \in {0, -1}
        /\ op.ret = 0 =>
              \E row \in RowsFor(ActionName(op.arg[1])) :
                 /\ Bits(cur_sig.action) = row[2]
                 /\ row[2] \cap {ACTION_REJECT, ACTION_REJECT_DST, ACTION_REJECT_BOTH} # {}
                       => op.arg[2]
        /\ RowsFor(ActionName(op.arg[1])) = {} => op.ret = -1
        /\ op.ret = -1 => cur_sig.action = 0
        /\ \A row \in RowsFor(ActionName(op.arg[1])) :
              (/\ op.arg[1] = ActionName(op.arg[1])
               /\ ~op.was.init_data.firewall_rule
               /\ ACTION_ACCEPT \notin row[2]
               /\ row[2] \cap {ACTION_REJECT, ACTION_REJECT_DST, ACTION_REJECT_BOTH} # {}
                     => op.arg[2])
                 => op.ret = 0

\* "REJECTDST" parsed where rejects can be sent
C20_Witness ==
    /\ op.name = "SigParseAction"
    /\ op.ret = 0
    /\ op.arg[1] = <<"R", "E", "J", "E", "C", "T", "D", "S", "T">>
    /\ Bits(cur_sig.action) = {ACTION_REJECT_DST, ACTION_DROP, ACTION_ALERT}

\* a reject refused where rejects cannot be sent
C20_WitnessNoInject ==
    /\ op.name = "SigParseAction"
    /\ op.ret = -1
    /\ op.arg[1] = <<"r", "e", "j", "e", "c", "t">>
    /\ ~op.arg[2]
    /\ cur_sig.action = 0

\* a name that is none refused
C20_WitnessOther ==
    /\ op.name = "SigParseAction"
    /\ op.ret = -1
    /\ op.arg[1] = <<"a", "l", "e", "r", "t", "s">>

\* accept with a scope parsed in a firewall rule
C20_WitnessAccept ==
    /\ op.name = "SigParseAction"
    /\ op.ret = 0
    /\ cur_sig.action = ACTION_ACCEPT
    /\ cur_sig.action_scope = "ACTION_SCOPE_HOOK"


\* the scope of an action: what is between its first and its second ":",
\* <<>> for none
ActionScopeOf(action_in) ==
    IF \E i \in 1..Len(strlcpy(action_in, 32)) : strlcpy(action_in, 32)[i] = ":"
    THEN strtok_r(strtok_r(strlcpy(action_in, 32), ":").rest, ":").tok
    ELSE <<>>

\* the scopes by name
ScopeTable ==
    {<<<<"p", "a", "c", "k", "e", "t">>, "ACTION_SCOPE_PACKET">>, <<<<"f", "l", "o", "w">>, "ACTION_SCOPE_FLOW">>,
     <<<<"t", "x">>, "ACTION_SCOPE_TX">>, <<<<"h", "o", "o", "k">>, "ACTION_SCOPE_HOOK">>}

\* the scopes an action with the flags accepts; reject_scopes are those of
\* the rejects
ScopesAccepted(flags, reject_scopes) ==
    IF flags \cap {ACTION_REJECT, ACTION_REJECT_DST, ACTION_REJECT_BOTH} # {}
    THEN reject_scopes
    ELSE IF flags \cap {ACTION_DROP, ACTION_PASS} # {}
    THEN {"ACTION_SCOPE_PACKET", "ACTION_SCOPE_FLOW"}
    ELSE IF ACTION_ACCEPT \in flags
    THEN {"ACTION_SCOPE_PACKET", "ACTION_SCOPE_FLOW", "ACTION_SCOPE_TX", "ACTION_SCOPE_HOOK"}
    ELSE IF ACTION_CONFIG \in flags THEN {"ACTION_SCOPE_PACKET"}
    ELSE {}

\* a scoped action is parsed iff its scope is one its action accepts, but for
\* the refusals that do not depend on the scope (a reject that cannot be
\* sent, accept outside and pass inside a firewall rule)
ScopeOutcome(reject_scopes) ==
    (op.name = "SigParseAction" /\ ActionScopeOf(op.arg[1]) # <<>>) =>
        \A row \in RowsFor(ActionName(op.arg[1])) :
           LET legal == \E sc \in ScopeTable :
                           /\ sc[1] = ActionScopeOf(op.arg[1])
                           /\ sc[2] \in ScopesAccepted(row[2], reject_scopes)
               barred == \/ /\ row[2] \cap {ACTION_REJECT, ACTION_REJECT_DST,
                                            ACTION_REJECT_BOTH} # {}
                            /\ ~op.arg[2]
                         \/ ACTION_ACCEPT \in row[2] /\ ~op.was.init_data.firewall_rule
                         \/ ACTION_PASS \in row[2] /\ op.was.init_data.firewall_rule
           IN  /\ ~legal => op.ret = -1 /\ cur_sig.action = 0
               /\ (legal /\ ~barred) =>
                     /\ op.ret = 0
                     /\ \E sc \in ScopeTable :
                           /\ sc[1] = ActionScopeOf(op.arg[1])
                           /\ sc[2] = cur_sig.action_scope

\* C21 (as the code has it): SigParseAction accepts a scope only where the
\* action has one: drop, pass, reject, rejectsrc, rejectdst and rejectboth
\* accept exactly packet and flow, config exactly packet, accept exactly
\* packet, flow, tx and hook, and alert none; any other ':scope' is a parse
\* error.
C21_ScopeByActionWithReject ==
    ScopeOutcome({"ACTION_SCOPE_PACKET", "ACTION_SCOPE_FLOW"})

\* reject:flow, parsed with the scope of the flow
C21_Witness ==
    /\ op.name = "SigParseAction"
    /\ op.ret = 0
    /\ op.arg[1] = <<"r", "e", "j", "e", "c", "t", ":", "f", "l", "o", "w">>
    /\ cur_sig.action_scope = "ACTION_SCOPE_FLOW"

\* alert:packet, refused
C21_WitnessAlert ==
    /\ op.name = "SigParseAction"
    /\ op.ret = -1
    /\ op.arg[1] = <<"a", "l", "e", "r", "t", ":", "p", "a", "c", "k", "e", "t">>

\* C21 (as claimed): drop and pass accept exactly packet and flow, config
\* exactly packet, accept exactly packet, flow, tx and hook, and alert,
\* reject, rejectsrc, rejectdst and rejectboth accept no scope at all.
C21_ScopeByAction == ScopeOutcome({})

\* C22: when the action of a rule was parsed, a firewall rule has a scope and
\* no ACTION_PASS and a rule that is none has no ACTION_ACCEPT; accept with
\* any scope is refused outside firewall rules, and a refusal leaves
\* s->action unassigned.
C22_FirewallActionRules ==
    op.name = "SigParseAction" =>
        /\ op.ret = 0 =>
              IF cur_sig.init_data.firewall_rule
              THEN /\ cur_sig.action_scope # "ACTION_SCOPE_AUTO"
                   /\ ACTION_PASS \notin Bits(cur_sig.action)
              ELSE ACTION_ACCEPT \notin Bits(cur_sig.action)
        /\ op.ret = 0 => cur_sig.action # 0
        /\ (/\ ~op.was.init_data.firewall_rule
            /\ \E row \in RowsFor(ActionName(op.arg[1])) : ACTION_ACCEPT \in row[2])
              => op.ret = -1
        /\ (/\ op.was.init_data.firewall_rule
            /\ \/ ActionScopeOf(op.arg[1]) = <<>>
               \/ \E row \in RowsFor(ActionName(op.arg[1])) : ACTION_PASS \in row[2])
              => op.ret = -1
        /\ op.ret = -1 => cur_sig.action = op.was.action /\ cur_sig.action = 0
        /\ cur_sig.init_data.firewall_rule = op.was.init_data.firewall_rule
        /\ cur_sig.init_data.firewall_rule <=> "SIG_FLAG_FIREWALL" \in cur_sig.flags

\* accept:flow outside a firewall rule, refused with its scope already set
C22_Witness ==
    /\ op.name = "SigParseAction"
    /\ op.ret = -1
    /\ ~cur_sig.init_data.firewall_rule
    /\ op.arg[1] = <<"a", "c", "c", "e", "p", "t", ":", "f", "l", "o", "w">>
    /\ cur_sig.action_scope = "ACTION_SCOPE_FLOW"
    /\ cur_sig.action = 0

\* drop:packet in a firewall rule, parsed
C22_WitnessFirewall ==
    /\ op.name = "SigParseAction"
    /\ op.ret = 0
    /\ cur_sig.init_data.firewall_rule
    /\ Bits(cur_sig.action) = {ACTION_DROP, ACTION_ALERT}
    /\ cur_sig.action_scope = "ACTION_SCOPE_PACKET"


----------------------------------------------------------------------------
(* The tokens of a rule.  A rule is the sequence of its characters; a char *)
(* pointer is <<>> when NULL and <<str>> when it points to str.            *)

DETECT_MAX_RULE_SIZE == 8192

isblank(c) == c \in {" ", "\t"}

isspace(c) == c \in {" ", "\t", "\n", "\r", "\f"}

\* str without its leading blanks
RECURSIVE SkipBlank(_)
SkipBlank(str) == IF str # <<>> /\ isblank(Head(str)) THEN SkipBlank(Tail(str)) ELSE str

\* the index of the first character of str that is in accept, 0 for none
strpbrk(str, accept) ==
    IF \E i \in 1..Len(str) : str[i] \in accept
    THEN CHOOSE i \in 1..Len(str) : str[i] \in accept /\ \A j \in 1..(i - 1) : str[j] \notin accept
    ELSE 0

\* the characters of a string as one atom
RECURSIVE Atom(_)
Atom(str) == IF str = <<>> THEN "" ELSE Head(str) \o Atom(Tail(str))

\* SigParseToken after the blanks: the token ends at the first white space,
\* or the input is used up
SigParseTokenAt(str, e, output_size) ==
    [ret |-> 1,
     input |-> IF e = 0 THEN <<>> ELSE <<SubSeq(str, e + 1, Len(str))>>,
     output |-> strlcpy(IF e = 0 THEN str ELSE SubSeq(str, 1, e - 1), output_size)]

\* the next token of the rule: ret 0 and nothing changed at the end of the
\* input, else the token in output and the input after it
SigParseToken(input, output, output_size) ==
    IF input = <<>> \/ input[1] = <<>>
    THEN [ret |-> 0, input |-> input, output |-> output]
    ELSE SigParseTokenAt(SkipBlank(input[1]),
                         strpbrk(SkipBlank(input[1]), {" ", "\t", "\n", "\r"}), output_size)

\* the for loop of SigParseList: the index of the first space outside
\* brackets, from character i on with in_list brackets open; Len(str) + 1 for
\* none
RECURSIVE ListEnd(_, _, _)
ListEnd(str, i, in_list) ==
    IF i > Len(str) THEN i
    ELSE IF str[i] = "[" THEN ListEnd(str, i + 1, in_list + 1)
    ELSE IF str[i] = "]" THEN ListEnd(str, i + 1, in_list - 1)
    ELSE IF str[i] = " " /\ in_list = 0 THEN i
    ELSE ListEnd(str, i + 1, in_list)

\* SigParseList after the blanks: a token that no space ends is no token
SigParseListAt(input, output, str, i, output_size) ==
    IF i = Len(str) + 1
    THEN [ret |-> 0, input |-> <<>>, output |-> output]
    ELSE [ret |-> 1, input |-> <<SubSeq(str, i + 1, Len(str))>>,
          output |-> strlcpy(SubSeq(str, 1, i - 1), output_size)]

\* the next token of the rule where it may be a list in brackets
SigParseList(input, output, output_size) ==
    IF input = <<>> \/ input[1] = <<>>
    THEN [ret |-> 0, input |-> input, output |-> output]
    ELSE SigParseListAt(input, output, SkipBlank(input[1]),
                        ListEnd(SkipBlank(input[1]), 1, 0), output_size)

\* the parser after memset
SignatureParserInit ==
    [action |-> <<>>, protocol |-> <<>>, direction |-> <<>>, src |-> <<>>,
     dst |-> <<>>, sp |-> <<>>, dp |-> <<>>, opts |-> <<>>]

\* the result r of a token call stored: the return value is not looked at
TokenInto(t, field, r) ==
    [index |-> r.input, parser |-> [t.parser EXCEPT ![field] = r.output]]

TokenOf(t, field) ==
    TokenInto(t, field, SigParseToken(t.index, t.parser[field], DETECT_MAX_RULE_SIZE))

ListOfRule(t, field) ==
    TokenInto(t, field, SigParseList(t.index, t.parser[field], DETECT_MAX_RULE_SIZE))

\* str without its leading white space and "("
RECURSIVE SkipOpen(_)
SkipOpen(str) ==
    IF str # <<>> /\ (isspace(Head(str)) \/ Head(str) = "(") THEN SkipOpen(Tail(str)) ELSE str

\* str without its trailing white space and ")"
RECURSIVE StripClose(_)
StripClose(str) ==
    IF str # <<>> /\ (isspace(str[Len(str)]) \/ str[Len(str)] = ")")
    THEN StripClose(SubSeq(str, 1, Len(str) - 1))
    ELSE str

\* the options of the rule: what is left of it, "no rule options" when
\* nothing is
SigParseBasicsOptions(t) ==
    IF t.index = <<>> THEN [ret |-> -1, parser |-> t.parser]
    ELSE [ret |-> 0,
          parser |-> [t.parser EXCEPT !.opts =
                         strlcpy(StripClose(SkipOpen(t.index[1])), DETECT_MAX_RULE_SIZE)]]

\* the rule split into its blocks
SigParseBasicsTokens(sigstr, parser) ==
    SigParseBasicsOptions(
       ListOfRule(ListOfRule(TokenOf(ListOfRule(ListOfRule(ListOfRule(TokenOf(
          [index |-> <<strlcpy(sigstr, DETECT_MAX_RULE_SIZE)>>, parser |-> parser],
          "action"), "protocol"), "src"), "sp"), "direction"), "dst"), "dp"))

\* SigParseProto on the protocol block of the rule: "p" or "p:h"
SigParseProtoStr(s, protostr) ==
    IF \E i \in 1..Len(strlcpy(protostr, 33)) : strlcpy(protostr, 33)[i] = ":"
    THEN IF strtok_r(strlcpy(protostr, 33), ":").tok = <<>>
         THEN [ret |-> -1, s |-> s]
         ELSE SigParseProto(s, Atom(strtok_r(strlcpy(protostr, 33), ":").tok),
                 Atom(strtok_r(strtok_r(strlcpy(protostr, 33), ":").rest, ":").tok))
    ELSE SigParseProto(s, Atom(strlcpy(protostr, 33)), "")

\* as SigParseBasicsDirection, but every token with a ">" is a direction
SigParseBasicsDirectionLoose(s, direction) ==
    IF strcmp(direction, <<"<", ">">>) = 0
    THEN [ret |-> 0,
          s |-> [s EXCEPT !.init_data.init_flags = @ \cup {"SIG_FLAG_INIT_BIDIREC"}]]
    ELSE IF strcmp(direction, <<"=", ">">>) = 0
    THEN [ret |-> 0, s |-> [s EXCEPT !.flags = @ \cup {"SIG_FLAG_TXBOTHDIR"}]]
    ELSE IF \E i \in 1..Len(direction) : direction[i] = ">"
    THEN [ret |-> 0, s |-> s]
    ELSE [ret |-> -1, s |-> s]

\* the direction of the rule
SigParseBasicsDirection(s, direction) ==
    IF strcmp(direction, <<"<", ">">>) = 0
    THEN [ret |-> 0,
          s |-> [s EXCEPT !.init_data.init_flags = @ \cup {"SIG_FLAG_INIT_BIDIREC"}]]
    ELSE IF strcmp(direction, <<"=", ">">>) = 0
    THEN IF "SIG_FLAG_FIREWALL" \in s.flags
         THEN [ret |-> -1, s |-> s]
         ELSE [ret |-> 0, s |-> [s EXCEPT !.flags = @ \cup {"SIG_FLAG_TXBOTHDIR"}]]
    ELSE IF strcmp(direction, <<"-", ">">>) # 0
    THEN [ret |-> -1, s |-> s]
    ELSE [ret |-> 0, s |-> s]

\* external (SigParseAddress, SigParsePort): whether the addresses and the
\* ports of the rule parse is ext.addrs_ok
SigParseBasicsAddrs(d, ext) ==
    IF d.ret < 0 THEN d
    ELSE IF ~ext.addrs_ok THEN [ret |-> -1, s |-> d.s]
    ELSE d

SigParseBasicsAfterProto(p, parser, ext) ==
    IF p.ret < 0 THEN [ret |-> -1, s |-> p.s]
    ELSE SigParseBasicsAddrs(SigParseBasicsDirection(p.s, parser.direction), ext)

SigParseBasicsAfterAction(a, parser, ext) ==
    IF a.ret < 0 THEN [ret |-> -1, s |-> a.s]
    ELSE SigParseBasicsAfterProto(SigParseProtoStr(a.s, parser.protocol), parser, ext)

\* the header of the rule interpreted, block by block
SigParseBasicsHeader(s, parser, ext) ==
    SigParseBasicsAfterAction(SigParseAction(s, parser.action, ext.inject), parser, ext)

\* SigParseBasics on the text of a rule, t its blocks
SigParseBasicsOf(s, t, scan_only, ext) ==
    IF t.ret < 0 THEN [ret |-> -1, s |-> s, parser |-> t.parser]
    ELSE IF scan_only THEN [ret |-> 0, s |-> s, parser |-> t.parser]
    ELSE [ret |-> SigParseBasicsHeader(s, t.parser, ext).ret,
          s |-> SigParseBasicsHeader(s, t.parser, ext).s,
          parser |-> t.parser]

SigParseBasicsStr(s, sigstr, parser, scan_only, ext) ==
    SigParseBasicsOf(s, SigParseBasicsTokens(sigstr, parser), scan_only, ext)

----------------------------------------------------------------------------
(* Rules as texts *)

\* n times the character c
RECURSIVE Times(_, _)
Times(c, n) == IF n = 0 THEN <<>> ELSE <<c>> \o Times(c, n - 1)

\* the tokens with a space after each
RECURSIVE Spaced(_)
Spaced(tokens) ==
    IF tokens = <<>> THEN <<>> ELSE Head(tokens) \o <<" ">> \o Spaced(Tail(tokens))

\* seq without its k-th element, seq for k = 0
LeaveOut(seq, k) ==
    IF k = 0 THEN seq ELSE SubSeq(seq, 1, k - 1) \o SubSeq(seq, k + 1, Len(seq))

DirectionTokens ==
    {<<"-", ">">>, <<"<", ">">>, <<"=", ">">>, <<"<", "-">>, <<"-">>, <<"<">>,
     <<">">>, <<"-", "<">>, <<">", "-">>, <<">", "<">>, <<"-", ">", ">">>, <<"=", ">", ">">>}

OptionTexts ==
    <<<<"s", "i", "d", ":", "1", ";">>,
      <<"m", "s", "g", ":", "\"", "a", " ", "b", "\"", ";", " ", "s", "i", "d", ":", "1", ";">>>>

\* the seven tokens of the header "alert tcp any any d any any"
HeaderTokens(d) == <<<<"a", "l", "e", "r", "t">>, <<"t", "c", "p">>, <<"a", "n", "y">>, <<"a", "n", "y">>, d, <<"a", "n", "y">>, <<"a", "n", "y">>>>

\* a rule is written from: its direction token, which of the seven tokens is
\* left out (0 for none), whether it has an option body, the options, and how
\* many "(" and ")" are around them
RuleShapes ==
    [direction : DirectionTokens, missing : 0..7, body : {TRUE}, options : {1, 2},
     opens : 0..MaxParens, closes : 0..MaxParens]
    \cup [direction : DirectionTokens, missing : 0..7, body : {FALSE}, options : {1},
          opens : {0}, closes : {0}]

\* the text of the rule: the header and the body
RuleText(shape) ==
    IF shape.body
    THEN Spaced(LeaveOut(HeaderTokens(shape.direction), shape.missing))
            \o Times("(", shape.opens) \o OptionTexts[shape.options]
            \o Times(")", shape.closes)
    ELSE LET hdr == Spaced(LeaveOut(HeaderTokens(shape.direction), shape.missing))
         IN  SubSeq(hdr, 1, Len(hdr) - 1)

BasicsExt == [inject : {TRUE}, addrs_ok : BOOLEAN]

\* a signature just allocated and the rule to parse into it
InitBasics ==
    /\ \E firewall_rule \in BOOLEAN : cur_sig = SigAllocFor(firewall_rule)
    /\ \E shape \in RuleShapes :
          op = [NoOp EXCEPT !.arg = [shape |-> shape, sigstr |-> RuleText(shape),
                                     parser |-> SignatureParserInit, scan_only |-> FALSE]]
    /\ sm_mem = <<>>
    /\ EngineInit

\* one call of SigParseBasics, of the scan pass or of the build pass
ParseBasics(scan_only, ext) ==
    /\ op.count = 0
    /\ \E r \in {SigParseBasicsStr(cur_sig, op.arg.sigstr, op.arg.parser, scan_only, ext)} :
          /\ cur_sig' = r.s
          /\ op' = [op EXCEPT !.name = "SigParseBasics", !.ret = r.ret, !.count = 1,
                              !.failed = r.ret < 0, !.was = cur_sig,
                              !.arg = [@ EXCEPT !.parser = r.parser,
                                                !.scan_only = scan_only]]
    /\ UNCHANGED sm_mem
    /\ EngineIdle

NextBasics == \E scan_only \in BOOLEAN, ext \in BasicsExt : ParseBasics(scan_only, ext)

SpecBasics == InitBasics /\ [][NextBasics]_vars

C23_WitnessBidirec ==
    /\ op.name = "SigParseBasics"
    /\ op.arg.parser.direction = <<"<", ">">>
    /\ op.ret = 0
    /\ "SIG_FLAG_INIT_BIDIREC" \in cur_sig.init_data.init_flags
    /\ "SIG_FLAG_TXBOTHDIR" \notin cur_sig.flags

\* "=>" parsed outside a firewall rule
C23_WitnessTxBoth ==
    /\ op.name = "SigParseBasics"
    /\ op.arg.parser.direction = <<"=", ">">>
    /\ op.ret = 0
    /\ "SIG_FLAG_TXBOTHDIR" \in cur_sig.flags

\* "=>" refused for a firewall rule
C23_WitnessFirewall ==
    /\ op.name = "SigParseBasics"
    /\ ~op.arg.scan_only
    /\ op.arg.shape.missing = 0
    /\ op.arg.parser.direction = <<"=", ">">>
    /\ "SIG_FLAG_FIREWALL" \in op.was.flags
    /\ op.ret = -1

\* "->" parsed: neither flag
C23_WitnessUnidirec ==
    /\ op.name = "SigParseBasics"
    /\ op.arg.parser.direction = <<"-", ">">>
    /\ op.ret = 0
    /\ "SIG_FLAG_INIT_BIDIREC" \notin cur_sig.init_data.init_flags
    /\ "SIG_FLAG_TXBOTHDIR" \notin cur_sig.flags


\* the rule lacks one of its seven header tokens, or its options are not
\* between one "(" and one ")"
Malformed(shape) ==
    \/ shape.missing # 0
    \/ ~shape.body
    \/ shape.opens # 1
    \/ shape.closes # 1

\* C24: tokenising a rule fails with a parse error whenever one of the seven
\* header tokens (action, protocol, src, sport, direction, dst, dport) is
\* missing or the option body is not enclosed in balanced parentheses, exactly
\* one "(" before the options and one ")" after them.
C24_TokenisingRejectsMalformed ==
    (op.name = "SigParseBasics" /\ op.arg.scan_only /\ Malformed(op.arg.shape))
        => op.ret = -1

\* the words of the text of a rule, the spaces of its options counted
RuleWords(shape) ==
    (IF shape.missing = 0 THEN 7 ELSE 6)
       + (IF ~shape.body THEN 0 ELSE IF shape.options = 1 THEN 1 ELSE 3)

\* what tokenising does refuse: a text without a space after its seventh word
C24_TokenisingRefusesShortRules ==
    (op.name = "SigParseBasics" /\ op.arg.scan_only) =>
        (op.ret = -1 <=> RuleWords(op.arg.shape) <= 7)

\* a rule without any parenthesis, parsed in the build pass as with them
C24_UnenclosedParsed ==
    /\ op.name = "SigParseBasics"
    /\ ~op.arg.scan_only
    /\ op.arg.shape.missing = 0
    /\ op.arg.shape.opens = 0 /\ op.arg.shape.closes = 0
    /\ op.arg.parser.opts = OptionTexts[1]
    /\ op.ret = 0


----------------------------------------------------------------------------
(* The options of a rule, character by character *)

ForceFlags == {"SIG_FLAG_INIT_FORCE_TOSERVER", "SIG_FLAG_INIT_FORCE_TOCLIENT"}

\* str without its trailing blanks
RECURSIVE TrimBlank(_)
TrimBlank(str) ==
    IF str # <<>> /\ isblank(str[Len(str)]) THEN TrimBlank(SubSeq(str, 1, Len(str) - 1))
    ELSE str

\* str starts with the characters of prefix
strncmpPrefix(str, prefix) ==
    IF Len(str) >= Len(prefix) /\ SubSeq(str, 1, Len(prefix)) = prefix THEN 0 ELSE 1

\* as DetectSetupDirectionFound, but a keyword with a direction never is
\* refused for the direction the rule has
DetectSetupDirectionFoundAny(s, rest, force, mine, other) ==
    [ret |-> 0,
     s |-> [s EXCEPT !.init_data.init_flags = @ \cup {force},
                     !.flags = IF "SIG_FLAG_TXBOTHDIR" \in s.flags THEN @ ELSE @ \cup {mine}],
     str |-> rest]

\* the direction was read: the keyword is forced to it, and a rule that is
\* not for both directions of a transaction takes it unless it has the other
DetectSetupDirectionFound(s, rest, force, mine, other) ==
    IF "SIG_FLAG_TXBOTHDIR" \in s.flags
    THEN [ret |-> 0, s |-> [s EXCEPT !.init_data.init_flags = @ \cup {force}], str |-> rest]
    ELSE IF other \in s.flags
    THEN [ret |-> -1, s |-> [s EXCEPT !.init_data.init_flags = @ \cup {force}], str |-> rest]
    ELSE [ret |-> 0,
          s |-> [s EXCEPT !.init_data.init_flags = @ \cup {force}, !.flags = @ \cup {mine}],
          str |-> rest]

\* as DetectSetupDirectionAfter, with only_dir the other way round
DetectSetupDirectionAfterNot(s, orig, rest, only_dir, force, mine, other) ==
    IF rest # <<>> /\ ~only_dir THEN [ret |-> -1, s |-> s, str |-> rest]
    ELSE IF rest # <<>> /\ Head(rest) # "," THEN [ret |-> 0, s |-> s, str |-> orig]
    ELSE IF rest # <<>>
    THEN DetectSetupDirectionFound(s, SkipBlank(Tail(rest)), force, mine, other)
    ELSE DetectSetupDirectionFound(s, rest, force, mine, other)

\* what follows the direction, its blanks skipped, is nothing or a comma; a
\* keyword that only takes a direction has nothing there
DetectSetupDirectionAfter(s, orig, rest, only_dir, force, mine, other) ==
    IF rest # <<>> /\ only_dir THEN [ret |-> -1, s |-> s, str |-> rest]
    ELSE IF rest # <<>> /\ Head(rest) # "," THEN [ret |-> 0, s |-> s, str |-> orig]
    ELSE IF rest # <<>>
    THEN DetectSetupDirectionFound(s, SkipBlank(Tail(rest)), force, mine, other)
    ELSE DetectSetupDirectionFound(s, rest, force, mine, other)

\* the direction in front of the value of a keyword: ret, the signature, and
\* the value behind the direction
DetectSetupDirection(s, str, only_dir) ==
    IF strncmpPrefix(str, <<"t", "o", "_", "c", "l", "i", "e", "n", "t">>) = 0
    THEN DetectSetupDirectionAfter(s, str, SkipBlank(SubSeq(str, 10, Len(str))), only_dir,
            "SIG_FLAG_INIT_FORCE_TOCLIENT", "SIG_FLAG_TOCLIENT", "SIG_FLAG_TOSERVER")
    ELSE IF strncmpPrefix(str, <<"t", "o", "_", "s", "e", "r", "v", "e", "r">>) = 0
    THEN DetectSetupDirectionAfter(s, str, SkipBlank(SubSeq(str, 10, Len(str))), only_dir,
            "SIG_FLAG_INIT_FORCE_TOSERVER", "SIG_FLAG_TOSERVER", "SIG_FLAG_TOCLIENT")
    ELSE IF only_dir THEN [ret |-> -1, s |-> s, str |-> str]
    ELSE [ret |-> 0, s |-> s, str |-> str]

\* the index of the ";" that ends the option, one behind a "\" passed over;
\* 0 for none
RECURSIVE OptEnd(_, _)
OptEnd(str, i) ==
    IF i > Len(str) THEN 0
    ELSE IF str[i] = ";" /\ ~(i > 1 /\ str[i - 1] = "\\") THEN i
    ELSE OptEnd(str, i + 1)

\* the option split at its first ":": the name, and the value as a pointer
OptSplit(opt) ==
    IF strpbrk(opt, {":"}) = 0
    THEN [optname |-> TrimBlank(opt), optvalue |-> <<>>]
    ELSE [optname |-> TrimBlank(SubSeq(opt, 1, strpbrk(opt, {":"}) - 1)),
          optvalue |-> <<TrimBlank(SubSeq(opt, strpbrk(opt, {":"}) + 1, Len(opt)))>>]

\* SigTableGet: the entry of the table with the name, in any case; <<>> for
\* none
SigTableGetStr(table, name) ==
    IF \E i \in 1..Len(table) : strcasecmp(name, table[i].name) = 0
    THEN <<table[CHOOSE i \in 1..Len(table) :
                    /\ strcasecmp(name, table[i].name) = 0
                    /\ \A j \in 1..(i - 1) : strcasecmp(name, table[j].name) # 0]>>
    ELSE <<>>

\* the result of the option: more options follow in output, or none
OptFinish(s, rest, setup, silent) ==
    [ret |-> IF Len(rest) > 0 THEN 1 ELSE 0, s |-> s, output |-> rest,
     setup |-> setup, silent |-> silent]

OptError(s, setup, silent) ==
    [ret |-> -1, s |-> s, output |-> <<>>, setup |-> setup, silent |-> silent]

\* st->Setup was called with arg, <<>> for NULL: what it saw in the signature,
\* and the code it returned
SetupCall(s, arg, setup_ret) ==
    <<[arg |-> arg, negated |-> s.init_data.negated,
       force |-> s.init_data.init_flags \cap ForceFlags, flags |-> s.flags,
       ret |-> setup_ret]>>

\* the code of the setup turned into the result of the option
OptAfterSetup(s, rest, setup, silent) ==
    IF setup[1].ret < 0
    THEN [ret |-> IF setup[1].ret = -2 THEN SilentErrorResult(<<silent>>, 1)
                  ELSE setup[1].ret,
          s |-> s, output |-> <<>>, setup |-> setup,
          silent |-> silent \/ setup[1].ret = -2]
    ELSE OptFinish([s EXCEPT !.init_data.negated = FALSE], rest, setup, silent)

\* as OptCallSetup, but the keyword stays forced to its direction
OptCallSetupKeep(s, ptr, rest, ext) ==
    OptAfterSetup(s, rest, SetupCall(s, <<ptr>>, ext.setup_ret), ext.silent)

\* the setup of a keyword with a value; the keyword is forced to a direction
\* for this call only
OptCallSetup(s, ptr, rest, ext) ==
    OptAfterSetup([s EXCEPT !.init_data.init_flags = @ \ ForceFlags], rest,
                  SetupCall(s, <<ptr>>, ext.setup_ret), ext.silent)

\* the direction of a keyword that supports one, then its setup
OptDirection(s, st, ptr, rest, ext, d) ==
    IF "SIGMATCH_SUPPORT_DIR" \notin st.flags THEN OptCallSetup(s, ptr, rest, ext)
    ELSE IF d.ret < 0 THEN OptError(d.s, <<>>, ext.silent)
    ELSE OptCallSetup(d.s, d.str, rest, ext)

\* the double quotes of a value that is not empty: mandatory quoting is
\* enforced, a quoted value of more than one character loses its quotes and
\* must not be empty then, and quotes are refused where they are not supported
OptUnquote(st, ptr) ==
    IF "SIGMATCH_QUOTES_MANDATORY" \in st.flags /\ Head(ptr) # "\""
    THEN [ret |-> -1, ptr |-> ptr]
    ELSE IF st.flags \cap {"SIGMATCH_QUOTES_OPTIONAL", "SIGMATCH_QUOTES_MANDATORY"} # {}
            /\ Head(ptr) = "\""
    THEN IF TrimBlank(ptr)[Len(TrimBlank(ptr))] # "\"" THEN [ret |-> -1, ptr |-> ptr]
         ELSE IF Len(TrimBlank(ptr)) = 1 THEN [ret |-> 0, ptr |-> TrimBlank(ptr)]
         ELSE IF Len(TrimBlank(ptr)) = 2 THEN [ret |-> -1, ptr |-> <<>>]
         ELSE [ret |-> 0, ptr |-> SubSeq(TrimBlank(ptr), 2, Len(TrimBlank(ptr)) - 1)]
    ELSE IF Head(ptr) = "\"" THEN [ret |-> -1, ptr |-> ptr]
    ELSE [ret |-> 0, ptr |-> ptr]

\* the value behind its negation and the blanks after it
OptQuotes(s, st, ptr, rest, ext, q) ==
    IF ptr = <<>> \/ q.ret < 0 THEN OptError(s, <<>>, ext.silent)
    ELSE OptDirection(s, st, q.ptr, rest, ext,
                      DetectSetupDirection(s, q.ptr, "SIGMATCH_OPTIONAL_OPT" \in st.flags))

\* as OptNegation, but the "!" is looked for behind the opening quote
OptNegationInQuotes(s, st, ptr, rest, ext) ==
    IF "SIGMATCH_HANDLE_NEGATION" \in st.flags /\ Head(ptr) = "!"
    THEN OptQuotes([s EXCEPT !.init_data.negated = TRUE], st, SkipBlank(Tail(ptr)), rest, ext,
                   IF SkipBlank(Tail(ptr)) = <<>> THEN [ret |-> -1, ptr |-> <<>>]
                   ELSE OptUnquote(st, SkipBlank(Tail(ptr))))
    ELSE IF /\ "SIGMATCH_HANDLE_NEGATION" \in st.flags
            /\ Len(ptr) > 1 /\ Head(ptr) = "\"" /\ ptr[2] = "!"
    THEN OptQuotes([s EXCEPT !.init_data.negated = TRUE], st, ptr, rest, ext,
                   OptUnquote(st, <<"\"">> \o SubSeq(ptr, 3, Len(ptr))))
    ELSE OptQuotes(s, st, ptr, rest, ext, OptUnquote(st, ptr))

\* a "!" in front of the value of a keyword that handles negation
OptNegation(s, st, ptr, rest, ext) ==
    IF "SIGMATCH_HANDLE_NEGATION" \in st.flags /\ Head(ptr) = "!"
    THEN OptQuotes([s EXCEPT !.init_data.negated = TRUE], st, SkipBlank(Tail(ptr)), rest, ext,
                   IF SkipBlank(Tail(ptr)) = <<>> THEN [ret |-> -1, ptr |-> <<>>]
                   ELSE OptUnquote(st, SkipBlank(Tail(ptr))))
    ELSE OptQuotes(s, st, ptr, rest, ext, OptUnquote(st, ptr))

\* the value of the option, or none: the setup with the value made ready, or
\* with NULL
OptValue(s, st, optvalue, rest, ext) ==
    IF optvalue # <<>> /\ Len(optvalue[1]) > 0
    THEN IF SkipBlank(optvalue[1]) = <<>> THEN OptError(s, <<>>, ext.silent)
         ELSE OptNegation(s, st, SkipBlank(optvalue[1]), rest, ext)
    ELSE OptAfterSetup(s, rest, SetupCall(s, <<>>, ext.setup_ret), ext.silent)

\* the keyword of the option: one of the table with a setup, with a value if
\* it takes one and none if it takes none
OptKeyword(s, st, opt, rest, ext) ==
    IF st = <<>> THEN OptError(s, <<>>, ext.silent)
    ELSE IF st[1].flags \cap {"SIGMATCH_NOOPT", "SIGMATCH_OPTIONAL_OPT"} = {}
            /\ (opt.optvalue = <<>> \/ Len(opt.optvalue[1]) = 0)
    THEN OptError(s, <<>>, ext.silent)
    ELSE IF "SIGMATCH_NOOPT" \in st[1].flags
            /\ opt.optvalue # <<>> /\ Len(opt.optvalue[1]) > 0
    THEN OptError(s, <<>>, ext.silent)
    ELSE OptValue([s EXCEPT !.init_data.negated = FALSE], st[1], opt.optvalue, rest, ext)

\* the option once split: one that is for the other pass is passed over
OptGate(s, table, opt, rest, requires, ext) ==
    IF SkipInThisPass(requires, strcasecmp(opt.optname, <<"r", "e", "q", "u", "i", "r", "e", "s">>) = 0
                                   \/ strcasecmp(opt.optname, <<"s", "i", "d">>) = 0)
    THEN OptFinish(s, rest, <<>>, ext.silent)
    ELSE OptKeyword(s, SigTableGetStr(table, opt.optname), opt, rest, ext)

\* the first option of str, up to its ";"
OptAt(s, table, str, e, requires, ext) ==
    IF e = 0 THEN OptError(s, <<>>, ext.silent)
    ELSE OptGate(s, table, OptSplit(SubSeq(str, 1, e - 1)), SubSeq(str, e + 1, Len(str)),
                 requires, ext)

\* SigParseOptions on the text of the options: ret 1 and the text of the
\* options that follow in output, ret 0 at the last option, ret < 0 on error;
\* setup is the call of st->Setup if there was one, silent the engine's
\* sm_types_silent_error of the keyword
SigParseOptionsStr(s, table, optstr, requires, ext) ==
    OptAt(s, table, SkipBlank(optstr), OptEnd(SkipBlank(optstr), 1), requires, ext)


----------------------------------------------------------------------------
(* Rules as option texts *)

\* the keywords the options of the rules name, with the flags of their entries
\* in the table
OptionKeywords ==
    <<[name |-> <<"m", "s", "g">>, flags |-> {"SIGMATCH_QUOTES_MANDATORY"}],
      [name |-> <<"c", "o", "n", "t", "e", "n", "t">>, flags |-> {"SIGMATCH_QUOTES_MANDATORY", "SIGMATCH_HANDLE_NEGATION"}],
      [name |-> <<"p", "c", "r", "e">>, flags |-> {"SIGMATCH_QUOTES_OPTIONAL", "SIGMATCH_HANDLE_NEGATION"}],
      [name |-> <<"d", "s", "i", "z", "e">>, flags |-> {}],
      [name |-> <<"i", "s", "d", "a", "t", "a", "a", "t">>, flags |-> {"SIGMATCH_HANDLE_NEGATION"}],
      [name |-> <<"n", "o", "c", "a", "s", "e">>, flags |-> {"SIGMATCH_NOOPT"}],
      [name |-> <<"s", "i", "d">>, flags |-> {"SIGMATCH_QUOTES_OPTIONAL"}],
      [name |-> <<"d", "i", "r", "v", "a", "l">>, flags |-> {"SIGMATCH_SUPPORT_DIR"}],
      [name |-> <<"d", "i", "r", "o", "n", "l", "y">>, flags |-> {"SIGMATCH_SUPPORT_DIR", "SIGMATCH_OPTIONAL_OPT"}]>>

\* the values of the options, each behind a pointer; <<>> is an option without
\* a ":", <<<<>>>> one with nothing after it
OptionValues ==
    {<<<<"a", "b">>>>,
     <<<<"\"", "a", "b", "\"">>>>,
     <<<<" ", "\"", "a", "b", "\"", " ">>>>,
     <<<<"\"">>>>,
     <<<<"\"", "\"">>>>,
     <<<<"\"", "a", "b">>>>,
     <<<<"!", "\"", "a", "b", "\"">>>>,
     <<<<"\"", "!", "a", "b", "\"">>>>,
     <<<<"!", "a", "b">>>>,
     <<<<"!", " ", "a", "b">>>>,
     <<<<"!">>>>,
     <<<<" ">>>>,
     <<<<"t", "o", "_", "s", "e", "r", "v", "e", "r">>>>,
     <<<<"t", "o", "_", "c", "l", "i", "e", "n", "t">>>>,
     <<<<"t", "o", "_", "s", "e", "r", "v", "e", "r", ",", "a", "b">>>>,
     <<<<"t", "o", "_", "c", "l", "i", "e", "n", "t", " ", ",", " ", "a", "b">>>>,
     <<<<"t", "o", "_", "s", "e", "r", "v", "e", "r", "_", "x">>>>,
     <<<<"t", "o", "_", "c", "l", "i", "e", "n", "t", "_", "x">>>>,
     <<<<"t", "o", "_", "c", "l", "i", "e", "n", "t", " ", "a", "b">>>>,
     <<<<"!", "t", "o", "_", "c", "l", "i", "e", "n", "t">>>>,
     <<<<>>>>, <<>>}

\* the text of an option
OptionText(name, value) ==
    IF value = <<>> THEN name \o <<";">> ELSE name \o <<":">> \o value[1] \o <<";">>

\* the options in front of the last one
LeadOptions ==
    {<<"d", "i", "r", "v", "a", "l", ":", "t", "o", "_", "s", "e", "r", "v", "e", "r", ",", "a", "b", ";">>,
     <<"d", "i", "r", "v", "a", "l", ":", "t", "o", "_", "c", "l", "i", "e", "n", "t", ";">>,
     <<"c", "o", "n", "t", "e", "n", "t", ":", "!", "\"", "a", "b", "\"", ";">>,
     <<" ", "d", "s", "i", "z", "e", ":", "a", "b", ";", " ">>}

\* the texts of seq, one after the other
RECURSIVE Flatten(_)
Flatten(seq) == IF seq = <<>> THEN <<>> ELSE Head(seq) \o Flatten(Tail(seq))

\* the headers of the rules: for one direction, for both directions of a
\* transaction, and with a hook that fixes the direction
OptionHeaders ==
    {<<"a", "l", "e", "r", "t", " ", "t", "c", "p", " ", "a", "n", "y", " ", "a", "n", "y", " ", "-", ">", " ", "a", "n", "y", " ", "a", "n", "y", " ", "(", "z", ";", ")">>,
     <<"a", "l", "e", "r", "t", " ", "t", "c", "p", " ", "a", "n", "y", " ", "a", "n", "y", " ", "=", ">", " ", "a", "n", "y", " ", "a", "n", "y", " ", "(", "z", ";", ")">>,
     <<"a", "l", "e", "r", "t", " ", "h", "t", "t", "p", "1", ":", "r", "e", "q", "u", "e", "s", "t", "_", "s", "t", "a", "r", "t", "e", "d", " ", "a", "n", "y", " ", "a", "n", "y", " ", "-", ">", " ", "a", "n", "y", " ", "a", "n", "y", " ", "(", "z", ";", ")">>,
     <<"a", "l", "e", "r", "t", " ", "h", "t", "t", "p", "1", ":", "r", "e", "s", "p", "o", "n", "s", "e", "_", "s", "t", "a", "r", "t", "e", "d", " ", "a", "n", "y", " ", "a", "n", "y", " ", "-", ">", " ", "a", "n", "y", " ", "a", "n", "y", " ", "(", "z", ";", ")">>}

\* the signature of a rule after the header was interpreted, about to parse
\* its options: the pass, the text left, and the last option with its keyword
InitOptions ==
    /\ \E hdr \in OptionHeaders :
          \E r \in {SigParseBasicsStr(SigAllocFor(FALSE), hdr, SignatureParserInit, FALSE,
                                      [inject |-> TRUE, addrs_ok |-> TRUE])} :
             /\ r.ret = 0
             /\ cur_sig = r.s
    /\ \E lead \in SeqsUpTo(LeadOptions, MaxLead), k \in 1..Len(OptionKeywords),
          value \in OptionValues :
          \E requires \in (IF lead = <<>> THEN BOOLEAN ELSE {FALSE}) :
             op = [NoOp EXCEPT !.arg =
                      [input |-> Flatten(lead) \o OptionText(OptionKeywords[k].name, value),
                       requires |-> requires, st |-> OptionKeywords[k], value |-> value,
                       lead |-> lead,
                       optstr |-> <<>>, setup |-> <<>>, silent |-> FALSE, output |-> <<>>]]
    /\ sm_mem = <<>>
    /\ EngineInit

OptionsExt ==
    [setup_ret : {0, -1, -2}, silent : {FALSE}] \cup [setup_ret : {-2}, silent : {TRUE}]

\* one round of the loop of SigParse: SigParseOptions on what is left of the
\* options
ParseOptions(ext) ==
    /\ op.count = 0 \/ op.ret = 1
    /\ \E r \in {SigParseOptionsStr(cur_sig, OptionKeywords, op.arg.input, op.arg.requires,
                                    ext)} :
          /\ cur_sig' = r.s
          /\ op' = [op EXCEPT !.name = "SigParseOptions", !.ret = r.ret, !.count = @ + 1,
                              !.failed = r.ret < 0, !.was = cur_sig,
                              !.arg = [@ EXCEPT !.optstr = op.arg.input,
                                                !.input = r.output, !.output = r.output,
                                                !.setup = r.setup, !.silent = r.silent]]
    /\ UNCHANGED sm_mem
    /\ EngineIdle

NextOptions == \E ext \in OptionsExt : ParseOptions(ext)

SpecOptions == InitOptions /\ [][NextOptions]_vars


\* the call parsed the last option of the rule, the one of op.arg.st with
\* op.arg.value, and did not pass it over as one of the other pass
LastOptionParsed ==
    /\ op.name = "SigParseOptions"
    /\ op.arg.optstr = OptionText(op.arg.st.name, op.arg.value)
    /\ ~SkipInThisPass(op.arg.requires, op.arg.st.name = <<"s", "i", "d">>)

\* the option has a value that is not empty
HasValue == op.arg.value # <<>> /\ op.arg.value[1] # <<>>

\* the value of the option, its blanks stripped
Stripped == TrimBlank(SkipBlank(op.arg.value[1]))

\* st->Setup was called for the option
SetupCalled == op.arg.setup # <<>>

\* str between its first and its last character
Inside(str) == SubSeq(str, 2, Len(str) - 1)

QuoteFlags == {"SIGMATCH_QUOTES_OPTIONAL", "SIGMATCH_QUOTES_MANDATORY"}

\* C25: for a keyword with QUOTES_MANDATORY the option is rejected unless its
\* value, after stripping blanks, starts and ends with a double quote; for a
\* keyword with QUOTES_MANDATORY or QUOTES_OPTIONAL every accepted quoted
\* value reaches the setup callback non-empty and with both enclosing quotes
\* removed; for a keyword with neither flag a value starting with a double
\* quote is rejected.
C25_QuotesEnforcedAndRemoved ==
    (LastOptionParsed /\ HasValue /\ Stripped # <<>>) =>
        /\ ("SIGMATCH_QUOTES_MANDATORY" \in op.arg.st.flags
            /\ ~(Head(Stripped) = "\"" /\ Stripped[Len(Stripped)] = "\""))
              => (op.ret = -1 /\ ~SetupCalled)
        /\ (op.arg.st.flags \cap QuoteFlags # {} /\ Head(Stripped) = "\"" /\ SetupCalled)
              => /\ op.arg.setup[1].arg # <<>>
                 /\ op.arg.setup[1].arg[1] # <<>>
                 /\ op.arg.setup[1].arg[1] = Inside(Stripped)
        /\ (op.arg.st.flags \cap QuoteFlags = {} /\ Head(Stripped) = "\"")
              => (op.ret = -1 /\ ~SetupCalled)

\* a value that is one double quote, passed to the setup of a keyword with
\* mandatory quotes as it is
C25_LoneQuotePassed ==
    /\ LastOptionParsed
    /\ op.arg.st.flags = {"SIGMATCH_QUOTES_MANDATORY"}
    /\ op.arg.value = <<<<"\"">>>>
    /\ SetupCalled
    /\ op.arg.setup[1].arg = <<<<"\"">>>>
    /\ op.ret = 0

\* what holds of the quotes: a value in quotes with something between them
\* reaches the setup without them, one without a closing quote or with nothing
\* between the quotes is rejected, and so is an unquoted value where quotes
\* are mandatory and a quoted one where quotes are not supported
C25_QuotesOfLongerValues ==
    (LastOptionParsed /\ HasValue /\ Stripped # <<>>
        /\ "SIGMATCH_HANDLE_NEGATION" \notin op.arg.st.flags) =>
        /\ ("SIGMATCH_QUOTES_MANDATORY" \in op.arg.st.flags /\ Head(Stripped) # "\"")
              => (op.ret = -1 /\ ~SetupCalled)
        /\ (op.arg.st.flags \cap QuoteFlags # {} /\ Head(Stripped) = "\"" /\ Len(Stripped) > 1)
              => IF Stripped[Len(Stripped)] = "\"" /\ Len(Stripped) > 2
                 THEN SetupCalled /\ op.arg.setup[1].arg = <<Inside(Stripped)>>
                 ELSE op.ret = -1 /\ ~SetupCalled
        /\ (op.arg.st.flags \cap QuoteFlags = {} /\ Head(Stripped) = "\"")
              => (op.ret = -1 /\ ~SetupCalled)

\* a value without the quotes around it, if it has them
Unquoted(str) ==
    IF Len(str) > 1 /\ Head(str) = "\"" /\ str[Len(str)] = "\"" THEN Inside(str) ELSE str

\* the value starts with "!", or with "!" behind its opening quote
BangFirst(str) ==
    \/ Head(str) = "!"
    \/ Len(str) > 1 /\ Head(str) = "\"" /\ str[2] = "!"

\* C26: for a keyword with HANDLE_NEGATION, a "!" that is the first character
\* of the value that is not a blank, in front of the opening double quote if
\* the value has one, sets init_data->negated to true for that setup call and
\* is not part of the string passed to the callback; a "!" behind the opening
\* quote is passed to the callback with the value and negated stays false;
\* without HANDLE_NEGATION negated is false during the call.
C26_NegationBeforeQuote ==
    (LastOptionParsed /\ SetupCalled) =>
        /\ (HasValue /\ "SIGMATCH_HANDLE_NEGATION" \in op.arg.st.flags /\ Head(Stripped) = "!")
              => /\ op.arg.setup[1].negated
                 /\ op.arg.setup[1].arg = <<Unquoted(SkipBlank(Tail(Stripped)))>>
        /\ (HasValue /\ "SIGMATCH_HANDLE_NEGATION" \in op.arg.st.flags /\ Head(Stripped) # "!")
              => /\ ~op.arg.setup[1].negated
                 /\ op.arg.setup[1].arg = <<Unquoted(Stripped)>>
        /\ "SIGMATCH_HANDLE_NEGATION" \notin op.arg.st.flags => ~op.arg.setup[1].negated
        /\ ~HasValue => ~op.arg.setup[1].negated

\* content:!"ab" is set up negated, with ab
C26_Witness ==
    /\ LastOptionParsed
    /\ "SIGMATCH_HANDLE_NEGATION" \in op.arg.st.flags
    /\ op.arg.value = <<<<"!", "\"", "a", "b", "\"">>>>
    /\ SetupCalled
    /\ op.arg.setup[1].negated
    /\ op.arg.setup[1].arg = <<<<"a", "b">>>>

\* content:"!ab" is set up with !ab, not negated
C26_WitnessInQuotes ==
    /\ LastOptionParsed
    /\ "SIGMATCH_HANDLE_NEGATION" \in op.arg.st.flags
    /\ op.arg.value = <<<<"\"", "!", "a", "b", "\"">>>>
    /\ SetupCalled
    /\ ~op.arg.setup[1].negated
    /\ op.arg.setup[1].arg = <<<<"!", "a", "b">>>>

\* C26 (as claimed): the "!" behind the opening quote sets negated and
\* is not passed to the callback
C26_NegationAfterQuote ==
    (LastOptionParsed /\ SetupCalled) =>
        /\ (HasValue /\ "SIGMATCH_HANDLE_NEGATION" \in op.arg.st.flags /\ BangFirst(Stripped))
              => /\ op.arg.setup[1].negated
                 /\ Head(op.arg.setup[1].arg[1]) # "!"
        /\ "SIGMATCH_HANDLE_NEGATION" \notin op.arg.st.flags => ~op.arg.setup[1].negated


\* the keyword of the option supports a direction
DirKeyword == "SIGMATCH_SUPPORT_DIR" \in op.arg.st.flags

\* the keyword only takes a direction
OnlyDir == "SIGMATCH_OPTIONAL_OPT" \in op.arg.st.flags

\* what follows the nine characters of the direction str starts with, blanks
\* skipped
AfterDir(str) == SkipBlank(SubSeq(str, 10, Len(str)))

\* str starts with the direction dir, optionally followed by ","
BeginsWith(str, dir) ==
    /\ strncmpPrefix(str, dir) = 0
    /\ AfterDir(str) = <<>> \/ Head(AfterDir(str)) = ","

\* str is read as the direction dir: it is dir, or, for a keyword that takes
\* more than a direction, dir followed by ","
ReadAs(str, dir, only_dir) ==
    /\ strncmpPrefix(str, dir) = 0
    /\ AfterDir(str) = <<>> \/ (~only_dir /\ Head(AfterDir(str)) = ",")

\* the force flags of the direction the value is read as
ForceOf(str, only_dir) ==
    IF ReadAs(str, <<"t", "o", "_", "s", "e", "r", "v", "e", "r">>, only_dir) THEN {"SIG_FLAG_INIT_FORCE_TOSERVER"}
    ELSE IF ReadAs(str, <<"t", "o", "_", "c", "l", "i", "e", "n", "t">>, only_dir) THEN {"SIG_FLAG_INIT_FORCE_TOCLIENT"}
    ELSE {}

\* the rule has the direction that contradicts the one the value is read as
Contradicts(s, str, only_dir) ==
    /\ "SIG_FLAG_TXBOTHDIR" \notin s.flags
    /\ \/ ReadAs(str, <<"t", "o", "_", "s", "e", "r", "v", "e", "r">>, only_dir) /\ "SIG_FLAG_TOCLIENT" \in s.flags
       \/ ReadAs(str, <<"t", "o", "_", "c", "l", "i", "e", "n", "t">>, only_dir) /\ "SIG_FLAG_TOSERVER" \in s.flags

\* C27: for a keyword with SUPPORT_DIR, a value that is to_server or
\* to_client, or, if the keyword has no OPTIONAL_OPT, starts with one of them
\* followed by ",", sets the matching force-direction flag for that setup call.
\* If the keyword also has OPTIONAL_OPT the value may be absent, but a value
\* other than exactly to_server or to_client is rejected; if it does not have
\* OPTIONAL_OPT a value that carries no direction is tolerated and passed to
\* the setup as it is.
C27_DirectionOnlyWithOptionalOpt ==
    (LastOptionParsed /\ DirKeyword) =>
        /\ (SetupCalled /\ HasValue) =>
              op.arg.setup[1].force = ForceOf(Stripped, OnlyDir)
        /\ (SetupCalled /\ ~HasValue) =>
              /\ OnlyDir
              /\ op.arg.setup[1].force = {}
              /\ op.arg.setup[1].arg = <<>>
        /\ (HasValue /\ Stripped # <<>> /\ Head(Stripped) # "\""
               /\ ~Contradicts(op.was, Stripped, OnlyDir)) =>
              IF OnlyDir
              THEN IF Stripped \in {<<"t", "o", "_", "s", "e", "r", "v", "e", "r">>, <<"t", "o", "_", "c", "l", "i", "e", "n", "t">>}
                   THEN SetupCalled /\ op.arg.setup[1].arg = <<<<>>>>
                   ELSE op.ret = -1 /\ ~SetupCalled
              ELSE /\ SetupCalled
                   /\ ForceOf(Stripped, FALSE) = {} => op.arg.setup[1].arg = <<Stripped>>
        /\ (~OnlyDir /\ ~HasValue) => (op.ret = -1 /\ ~SetupCalled)

\* a keyword with OPTIONAL_OPT refuses "to_server,ab"
C27_Witness ==
    /\ LastOptionParsed
    /\ DirKeyword /\ OnlyDir
    /\ op.arg.value = <<<<"t", "o", "_", "s", "e", "r", "v", "e", "r", ",", "a", "b">>>>
    /\ op.ret = -1
    /\ ~SetupCalled

\* a keyword without OPTIONAL_OPT takes "to_server,ab": forced to the server,
\* set up with ab
C27_WitnessComma ==
    /\ LastOptionParsed
    /\ DirKeyword /\ ~OnlyDir
    /\ op.arg.value = <<<<"t", "o", "_", "s", "e", "r", "v", "e", "r", ",", "a", "b">>>>
    /\ SetupCalled
    /\ op.arg.setup[1].force = {"SIG_FLAG_INIT_FORCE_TOSERVER"}
    /\ op.arg.setup[1].arg = <<<<"a", "b">>>>

\* a keyword without OPTIONAL_OPT takes a value without a direction
C27_WitnessNoDirection ==
    /\ LastOptionParsed
    /\ DirKeyword /\ ~OnlyDir
    /\ op.arg.value = <<<<"a", "b">>>>
    /\ SetupCalled
    /\ op.arg.setup[1].force = {}

\* a keyword with OPTIONAL_OPT is set up without a value
C27_WitnessAbsent ==
    /\ LastOptionParsed
    /\ DirKeyword /\ OnlyDir
    /\ ~HasValue
    /\ SetupCalled
    /\ op.arg.setup[1].arg = <<>>

\* C27 (as claimed): with OPTIONAL_OPT a value
\* without a direction is tolerated, without it any value other than exactly
\* to_server or to_client is rejected
C27_DirectionOnlyWithoutOptionalOpt ==
    (LastOptionParsed /\ DirKeyword /\ HasValue /\ Stripped # <<>> /\ Head(Stripped) # "\"") =>
        /\ (SetupCalled /\ (BeginsWith(Stripped, <<"t", "o", "_", "s", "e", "r", "v", "e", "r">>)))
              => "SIG_FLAG_INIT_FORCE_TOSERVER" \in op.arg.setup[1].force
        /\ (SetupCalled /\ (BeginsWith(Stripped, <<"t", "o", "_", "c", "l", "i", "e", "n", "t">>)))
              => "SIG_FLAG_INIT_FORCE_TOCLIENT" \in op.arg.setup[1].force
        /\ (OnlyDir /\ ~BeginsWith(Stripped, <<"t", "o", "_", "s", "e", "r", "v", "e", "r">>)
                    /\ ~BeginsWith(Stripped, <<"t", "o", "_", "c", "l", "i", "e", "n", "t">>))
              => SetupCalled
        /\ (~OnlyDir /\ Stripped \notin {<<"t", "o", "_", "s", "e", "r", "v", "e", "r">>, <<"t", "o", "_", "c", "l", "i", "e", "n", "t">>})
              => (op.ret = -1 /\ ~SetupCalled)

\* C28: for a signature without TXBOTHDIR that has SIG_FLAG_TOSERVER, from the
\* to_server of an earlier keyword or from an app-layer hook, a later
\* DetectSetupDirection call whose value is read as to_client fails, and so
\* does one read as to_server for a signature that has SIG_FLAG_TOCLIENT; the
\* value is read as a direction when it is the direction or, for a keyword
\* without OPTIONAL_OPT, the direction followed by ",", and a value that only
\* starts with the letters of a direction, as to_client_x, is none: it does
\* not fail for a keyword without OPTIONAL_OPT.  With TXBOTHDIR both directions
\* are accepted in any order and the TOSERVER and TOCLIENT bits of s->flags are
\* not modified.
C28_ContradictoryDirections ==
    (LastOptionParsed /\ DirKeyword /\ HasValue /\ Stripped # <<>> /\ Head(Stripped) # "\"") =>
        /\ Contradicts(op.was, Stripped, OnlyDir) =>
              /\ op.ret = -1
              /\ ~SetupCalled
              /\ cur_sig.flags = op.was.flags
        /\ (~OnlyDir /\ ForceOf(Stripped, FALSE) = {}) =>
              /\ SetupCalled
              /\ cur_sig.flags = op.was.flags
        /\ ("SIG_FLAG_TXBOTHDIR" \in op.was.flags /\ ForceOf(Stripped, OnlyDir) # {}) =>
              /\ SetupCalled
              /\ op.arg.setup[1].force = ForceOf(Stripped, OnlyDir)
              /\ cur_sig.flags = op.was.flags
        /\ ("SIG_FLAG_TXBOTHDIR" \notin op.was.flags /\ SetupCalled
               /\ ReadAs(Stripped, <<"t", "o", "_", "s", "e", "r", "v", "e", "r">>, OnlyDir)) =>
              cur_sig.flags = op.was.flags \cup {"SIG_FLAG_TOSERVER"}
        /\ ("SIG_FLAG_TXBOTHDIR" \notin op.was.flags /\ SetupCalled
               /\ ReadAs(Stripped, <<"t", "o", "_", "c", "l", "i", "e", "n", "t">>, OnlyDir)) =>
              cur_sig.flags = op.was.flags \cup {"SIG_FLAG_TOCLIENT"}

\* to_client after the to_server of an earlier keyword: refused
C28_Witness ==
    /\ LastOptionParsed
    /\ op.count = 2
    /\ op.arg.lead = <<<<"d", "i", "r", "v", "a", "l", ":", "t", "o", "_", "s", "e", "r", "v", "e", "r", ",", "a", "b", ";">>>>
    /\ op.arg.value = <<<<"t", "o", "_", "c", "l", "i", "e", "n", "t">>>>
    /\ "SIG_FLAG_TOSERVER" \in op.was.flags
    /\ "SIG_FLAG_TXBOTHDIR" \notin op.was.flags
    /\ "SIGNATURE_HOOK_TYPE_APP" # op.was.init_data.hook.type
    /\ op.ret = -1
    /\ ~SetupCalled

\* to_server in a rule whose hook is for the client: refused
C28_WitnessHook ==
    /\ LastOptionParsed
    /\ op.count = 1
    /\ DirKeyword /\ HasValue
    /\ op.was.init_data.hook.type = "SIGNATURE_HOOK_TYPE_APP"
    /\ "SIG_FLAG_TOCLIENT" \in op.was.flags
    /\ ReadAs(Stripped, <<"t", "o", "_", "s", "e", "r", "v", "e", "r">>, OnlyDir)
    /\ op.ret = -1
    /\ ~SetupCalled

\* to_client after to_server in a => rule: accepted, the flags as they were
C28_WitnessTxBoth ==
    /\ LastOptionParsed
    /\ op.count = 2
    /\ op.arg.lead = <<<<"d", "i", "r", "v", "a", "l", ":", "t", "o", "_", "s", "e", "r", "v", "e", "r", ",", "a", "b", ";">>>>
    /\ op.arg.value = <<<<"t", "o", "_", "c", "l", "i", "e", "n", "t">>>>
    /\ "SIG_FLAG_TXBOTHDIR" \in op.was.flags
    /\ SetupCalled
    /\ op.arg.setup[1].force = {"SIG_FLAG_INIT_FORCE_TOCLIENT"}
    /\ cur_sig.flags = op.was.flags

\* C28 (as claimed): every value that starts with the letters of the
\* contradicting direction fails
C28_ContradictoryPrefixes ==
    (LastOptionParsed /\ DirKeyword /\ HasValue /\ Stripped # <<>> /\ Head(Stripped) # "\""
        /\ "SIG_FLAG_TXBOTHDIR" \notin op.was.flags) =>
        /\ ("SIG_FLAG_TOSERVER" \in op.was.flags /\ strncmpPrefix(Stripped, <<"t", "o", "_", "c", "l", "i", "e", "n", "t">>) = 0)
              => (op.ret = -1 /\ ~SetupCalled)
        /\ ("SIG_FLAG_TOCLIENT" \in op.was.flags /\ strncmpPrefix(Stripped, <<"t", "o", "_", "s", "e", "r", "v", "e", "r">>) = 0)
              => (op.ret = -1 /\ ~SetupCalled)

\* C30: the transient state of a keyword never leaks from one option to the
\* next: whenever SigParseOptions returns after a successful setup, init_flags
\* has neither SIG_FLAG_INIT_FORCE_TOSERVER nor SIG_FLAG_INIT_FORCE_TOCLIENT
\* and init_data->negated is false, so during any setup call these reflect
\* only that option's own leading direction and "!".
C30_TransientStateCleared ==
    op.name = "SigParseOptions" =>
        /\ op.ret >= 0 =>
              /\ cur_sig.init_data.init_flags \cap ForceFlags = {}
              /\ ~cur_sig.init_data.negated
        /\ (LastOptionParsed /\ SetupCalled) =>
              /\ op.arg.setup[1].force =
                    IF HasValue /\ DirKeyword THEN ForceOf(Stripped, OnlyDir) ELSE {}
              /\ op.arg.setup[1].negated <=>
                    (/\ HasValue
                     /\ "SIGMATCH_HANDLE_NEGATION" \in op.arg.st.flags
                     /\ Head(Stripped) = "!")

\* an option without direction and "!" set up after one forced to the server:
\* not forced
C30_Witness ==
    /\ LastOptionParsed
    /\ op.count = 2
    /\ op.arg.lead = <<<<"d", "i", "r", "v", "a", "l", ":", "t", "o", "_", "s", "e", "r", "v", "e", "r", ",", "a", "b", ";">>>>
    /\ ~DirKeyword
    /\ SetupCalled
    /\ op.arg.setup[1].force = {}
    /\ ~op.arg.setup[1].negated
    /\ op.ret = 0

\* an option without "!" set up after a negated one: not negated
C30_WitnessNegated ==
    /\ LastOptionParsed
    /\ op.count = 2
    /\ op.arg.lead = <<<<"c", "o", "n", "t", "e", "n", "t", ":", "!", "\"", "a", "b", "\"", ";">>>>
    /\ "SIGMATCH_HANDLE_NEGATION" \in op.arg.st.flags
    /\ SetupCalled
    /\ ~op.arg.setup[1].negated
    /\ op.ret = 0


----------------------------------------------------------------------------
(* The header and the two passes *)

\* the last call was for a rule whose header has no valid direction
BadHeaderCall == last.called /\ last.direction \notin {"<>", "=>", "->"}

\* C29: SigInitHelper interprets the rule header (action, protocol and hook,
\* direction, addresses, ports) once per call, in the build pass, after the
\* scan pass has split the rule and dispatched `requires` and `sid`.  So for a
\* rule with an invalid header `requires` and `sid` are set up before the
\* header error is detected: unmet requirements make the rule a silently
\* skipped one, a missing sid rejects it, and otherwise it is rejected by the
\* header before any keyword of the build pass is set up.
C29_HeaderInBuildPass ==
    BadHeaderCall =>
        /\ last.sig = NULL
        /\ \A j \in 1..Len(setup_log) : setup_log[j].requires
        /\ ScanUnmet \/ Len(setup_log) = last.nscan
        /\ ScanUnmet =>
              /\ de_ctx.sigerror_requires
              /\ de_ctx.sigerror_silent
              /\ de_ctx.sigerror_ok
        /\ ~ScanUnmet => ~de_ctx.sigerror_requires

\* a rule with the direction "<-" and unmet requirements: skipped for its
\* requirements
C29_Witness ==
    /\ BadHeaderCall
    /\ Len(setup_log) = 1
    /\ setup_log[1].name = "requires"
    /\ setup_log[1].setup_ret = -4
    /\ de_ctx.sigerror_requires
    /\ last.sig = NULL

\* a rule with the direction "<-", met requirements and a sid: both set up,
\* then rejected
C29_WitnessMet ==
    /\ BadHeaderCall
    /\ Len(setup_log) = 2
    /\ setup_log[1].name = "requires" /\ setup_log[1].setup_ret = 0
    /\ setup_log[2].name = "sid"
    /\ ~de_ctx.sigerror_requires
    /\ last.sig = NULL

\* C29 (as claimed): the header is interpreted before the scan pass, a header
\* error is detected before `requires` and `sid` are set up
C29_HeaderBeforeScanPass ==
    BadHeaderCall =>
        /\ last.sig = NULL
        /\ setup_log = <<>>
        /\ ~de_ctx.sigerror_requires


----------------------------------------------------------------------------
(* The sticky buffer vector of one signature *)

\* a ctx pointer that is NULL
NullCtx == {"NULL"}

\* the ctxs SigMatchFree hands to the Free callback of the keyword: the ctx of
\* sm unless it is NULL (content and pcre register a Free)
SigMatchFree(sm) == IF sm.ctx # NullCtx THEN {sm.ctx} ELSE {}

\* the error path of the append: new is freed after its ctx was taken out
AppendErrorFree(new) == SigMatchFree([new EXCEPT !.ctx = NullCtx])

\* the ctxs freed by SCSigMatchAppendSMToList, which returned ret
AppendFreed(type, ctx, alloc_ok, ret) ==
    IF alloc_ok /\ ret = NULL
    THEN AppendErrorFree([SigMatchAlloc EXCEPT !.type = type, !.ctx = ctx])
    ELSE {}

\* the sticky list id the buffer type registry gave out i-th
StickyId(i) == DETECT_SM_LIST_MAX + i

\* the signature after a sticky buffer keyword of a buffer type that supports
\* several instances, followed by a content: the buffer is open, filled and
\* the active list
StickyKeywordOpened ==
    LET r == SCSigMatchAppendSMToList(
                 [SigAllocInitData EXCEPT !.init_data.list = StickyId(1)], <<>>,
                 "DETECT_CONTENT", {}, StickyId(1), TRUE)
    IN  SigRes(r.ret,
               [r.s EXCEPT !.init_data.buffers[1].sm_init = FALSE,
                           !.init_data.buffers[1].multi_capable = TRUE],
               r.mem)

\* the keyword setups i to n, each appending a SigMatch to a sticky list of
\* its own, as long as they succeed
RECURSIVE OpenBuffers(_, _, _)
OpenBuffers(r, i, n) ==
    IF i > n THEN r
    ELSE LET q == SCSigMatchAppendSMToList(r.s, r.mem, "DETECT_PCRE", {},
                                           StickyId(i + 1), TRUE)
         IN  IF q.ret = NULL THEN r ELSE OpenBuffers(q, i + 1, n)

\* how many buffers are open at the start: few, about one chunk, about all
OpenCounts == (0..MaxFew) \cup ((8 - MaxFew)..8) \cup ((56 - MaxFew)..56)

InitBuffers ==
    /\ \E n \in OpenCounts, multi \in BOOLEAN :
          \E r \in {OpenBuffers(IF multi THEN StickyKeywordOpened
                                ELSE SigRes(NULL, SigAllocInitData, <<>>), 1, n)} :
             /\ cur_sig = r.s
             /\ sm_mem = r.mem
    /\ op = NoOp
    /\ EngineInit

\* the setup of a keyword, called by SigParseOptions with the force flags of
\* its value, appends a SigMatch
SetupAppendSM(type, ctx, list, force, alloc_ok) ==
    /\ \E r \in {SCSigMatchAppendSMToList(
                    [cur_sig EXCEPT !.init_data.init_flags = @ \cup force],
                    sm_mem, type, ctx, list, alloc_ok)} :
          /\ cur_sig' = [r.s EXCEPT !.init_data.init_flags = @ \ ForceFlags]
          /\ sm_mem' = r.mem
          /\ op' = [name |-> "SCSigMatchAppendSMToList", ret |-> r.ret,
                    count |-> op.count + 1, failed |-> op.failed \/ r.ret = NULL,
                    order |-> IF r.ret # NULL THEN Append(op.order, r.ret) ELSE op.order,
                    sm |-> r.ret, arg |-> <<type, list, force, alloc_ok>>,
                    was |-> [cur_sig EXCEPT !.init_data.init_flags = @ \cup force],
                    freed |-> AppendFreed(type, ctx, alloc_ok, r.ret)]
    /\ EngineIdle

\* the lists the operations name: the payload list, a sticky list not opened
\* at the start, that of the multi-capable buffer and that of the first other
BufferLists == {DETECT_SM_LIST_PMATCH, StickyId(0), StickyId(1), StickyId(2)}

NextBuffers ==
    \/ \E list \in BufferLists, force \in {{}} \cup {{f} : f \in ForceFlags},
          alloc_ok \in BOOLEAN :
          /\ op.count < MaxBufferOps
          /\ SetupAppendSM("DETECT_CONTENT", {}, list, force, alloc_ok)
    \/ \E sm_list \in BufferLists \ {DETECT_SM_LIST_PMATCH} :
          /\ op.count < MaxBufferOps
          /\ ContentModifierBufferSetup("", sm_list, ALPROTO_HTTP1)

SpecBuffers == InitBuffers /\ [][NextBuffers]_vars

\* the buffer the append goes to: curbuf if it has the id, else the first
\* buffer with the id that is not multi-capable, else a new one
AppendTarget(d, list) ==
    IF d.curbuf # NULL /\ d.buffers[d.curbuf].id = list THEN d.curbuf
    ELSE IF \E x \in 1..Len(d.buffers) : d.buffers[x].id = list /\ ~d.buffers[x].multi_capable
    THEN CHOOSE x \in 1..Len(d.buffers) :
            /\ d.buffers[x].id = list /\ ~d.buffers[x].multi_capable
            /\ \A y \in 1..(x - 1) : d.buffers[y].id # list \/ d.buffers[y].multi_capable
    ELSE Len(d.buffers) + 1

\* the append to a sticky list that got a SigMatch cell
StickyAppend ==
    /\ op.name = "SCSigMatchAppendSMToList"
    /\ op.arg[2] >= DETECT_SM_LIST_MAX
    /\ op.arg[4]

\* new hangs at the tail of buffer x, which is curbuf; was: the buffer before
AppendedTo(x, was, new) ==
    /\ new # NULL
    /\ cur_sig.init_data.curbuf = x
    /\ cur_sig.init_data.buffers[x] =
          [was EXCEPT !.head = IF @ = NULL THEN new ELSE @, !.tail = new]
    /\ sm_mem[new].attached /\ sm_mem[new].next = NULL
    /\ sm_mem[new].prev = was.tail
    /\ was.tail # NULL => sm_mem[was.tail].next = new
    /\ cur_sig.init_data.sm_cnt = op.was.init_data.sm_cnt + 1

\* C31: SCSigMatchAppendSMToList with list >= DETECT_SM_LIST_MAX appends the
\* new SigMatch at the tail of curbuf if curbuf has the id list; otherwise of
\* the first buffer with that id that is not multi-capable, which becomes
\* curbuf; otherwise of a new buffer, which becomes curbuf, has sm_init set and
\* only_ts / only_tc set exactly when the force flag of that direction is set.
\* If the vector cannot be expanded it returns NULL, attaches nothing, leaves
\* curbuf, buffer_index and sm_cnt as they were and frees no ctx.
C31_StickyAppendChoosesBuffer ==
    StickyAppend =>
       \E x \in {AppendTarget(op.was.init_data, op.arg[2])} :
          IF x <= Len(op.was.init_data.buffers)
          THEN /\ AppendedTo(x, op.was.init_data.buffers[x], op.ret)
               /\ Len(cur_sig.init_data.buffers) = Len(op.was.init_data.buffers)
               /\ \A y \in 1..Len(op.was.init_data.buffers) :
                     y # x => cur_sig.init_data.buffers[y] = op.was.init_data.buffers[y]
          ELSE IF op.was.init_data.buffers_size >= 64
          THEN /\ op.ret = NULL
               /\ cur_sig.init_data.buffers = op.was.init_data.buffers
               /\ cur_sig.init_data.curbuf = op.was.init_data.curbuf
               /\ cur_sig.init_data.sm_cnt = op.was.init_data.sm_cnt
               /\ Len(sm_mem) = cur_sig.init_data.sm_cnt
               /\ \A sm \in 1..Len(sm_mem) : sm_mem[sm].attached
               /\ op.freed = {}
          ELSE /\ AppendedTo(x,
                     [id |-> op.arg[2], head |-> NULL, tail |-> NULL, sm_init |-> TRUE,
                      multi_capable |-> FALSE,
                      only_tc |-> "SIG_FLAG_INIT_FORCE_TOCLIENT" \in op.arg[3],
                      only_ts |-> "SIG_FLAG_INIT_FORCE_TOSERVER" \in op.arg[3]],
                     op.ret)
               /\ SubSeq(cur_sig.init_data.buffers, 1, x - 1) = op.was.init_data.buffers

\* the append reused a buffer that was not curbuf
C31_Witness ==
    /\ StickyAppend /\ op.ret # NULL
    /\ Len(cur_sig.init_data.buffers) = Len(op.was.init_data.buffers)
    /\ op.was.init_data.curbuf # cur_sig.init_data.curbuf
    /\ cur_sig.init_data.buffers[cur_sig.init_data.curbuf].head # op.ret

\* the append went to curbuf as it was
C31_WitnessCurbuf ==
    /\ StickyAppend /\ op.ret # NULL
    /\ Len(cur_sig.init_data.buffers) = Len(op.was.init_data.buffers)
    /\ op.was.init_data.curbuf = cur_sig.init_data.curbuf

\* a new buffer for the to_server direction only
C31_WitnessNew ==
    /\ StickyAppend /\ op.ret # NULL
    /\ Len(cur_sig.init_data.buffers) = Len(op.was.init_data.buffers) + 1
    /\ cur_sig.init_data.buffers[cur_sig.init_data.curbuf].only_ts
    /\ ~cur_sig.init_data.buffers[cur_sig.init_data.curbuf].only_tc

\* a new buffer although a multi-capable one with the id is open
C31_WitnessMulti ==
    /\ StickyAppend /\ op.ret # NULL
    /\ Len(cur_sig.init_data.buffers) = Len(op.was.init_data.buffers) + 1
    /\ \E y \in 1..Len(op.was.init_data.buffers) :
          /\ op.was.init_data.buffers[y].id = op.arg[2]
          /\ op.was.init_data.buffers[y].multi_capable

\* no room for a new buffer
C31_WitnessFull ==
    /\ StickyAppend /\ op.ret = NULL
    /\ op.was.init_data.curbuf # NULL
    /\ Len(cur_sig.init_data.buffers) < cur_sig.init_data.buffers_size


\* C32: the buffer vector starts with capacity 8, its capacity changes only by
\* growing by 8 and never exceeds 64, and after every operation buffer_index <
\* buffers_size, so the slot of a new buffer lies inside the vector.
C32_BufferVectorCapacity ==
    /\ SigAllocInitData.init_data.buffers_size = 8
    /\ [](/\ cur_sig.init_data.buffers_size \in {8 * k : k \in 1..8}
          /\ Len(cur_sig.init_data.buffers) < cur_sig.init_data.buffers_size
          /\ cur_sig.init_data.buffers = <<>> => cur_sig.init_data.buffers_size = 8)
    /\ [][/\ cur_sig'.init_data.buffers_size
                \in {cur_sig.init_data.buffers_size, cur_sig.init_data.buffers_size + 8}
          /\ Len(cur_sig'.init_data.buffers)
                \in {Len(cur_sig.init_data.buffers), Len(cur_sig.init_data.buffers) + 1}]_vars

\* the vector grew when its last slot was taken
C32_Witness ==
    /\ op.count > 0
    /\ cur_sig.init_data.buffers_size = op.was.init_data.buffers_size + 8
    /\ Len(cur_sig.init_data.buffers) = op.was.init_data.buffers_size

\* the vector at its largest
C32_WitnessLargest ==
    /\ op.count > 0
    /\ op.was.init_data.buffers_size = 56
    /\ cur_sig.init_data.buffers_size = 64


----------------------------------------------------------------------------
(* Lookups of the last SigMatch *)

\* a signature fresh from SigAlloc, or after a sticky buffer keyword and a
\* content
InitLookup ==
    /\ \E r \in {SigRes(NULL, SigAllocInitData, <<>>), StickyKeywordOpened} :
          /\ cur_sig = r.s
          /\ sm_mem = r.mem
    /\ op = NoOp
    /\ EngineInit

LookupNames ==
    {"DetectGetLastSMByListId", "DetectGetLastSMByListPtr", "DetectGetLastSMFromLists",
     "DetectGetLastSMFromMpmLists", "DetectGetLastSM"}

\* a keyword setup asks for the last SigMatch: arg is the list id or the list
\* pointer, types the keyword types, mpm the list ids that support MPM
GetLastSM(fn, arg, types, mpm) ==
    /\ op' = [op EXCEPT
                 !.name = fn,
                 !.ret = CASE fn = "DetectGetLastSMByListId" ->
                                 DetectGetLastSMByListId(cur_sig, sm_mem, arg, types)
                           [] fn = "DetectGetLastSMByListPtr" ->
                                 DetectGetLastSMByListPtr(sm_mem, arg, types)
                           [] fn = "DetectGetLastSMFromLists" ->
                                 DetectGetLastSMFromLists(cur_sig, sm_mem, types)
                           [] fn = "DetectGetLastSMFromMpmLists" ->
                                 DetectGetLastSMFromMpmLists(cur_sig, sm_mem, mpm)
                           [] fn = "DetectGetLastSM" ->
                                 DetectGetLastSM(cur_sig, sm_mem),
                 !.arg = <<arg, types, mpm>>,
                 !.was = cur_sig]
    /\ UNCHANGED <<cur_sig, sm_mem>>
    /\ EngineIdle

LookupTypes == {{"DETECT_CONTENT"}, {"DETECT_PCRE"}, {"DETECT_CONTENT", "DETECT_PCRE"}}

LookupLists == {DETECT_SM_LIST_MATCH, DETECT_SM_LIST_PMATCH, StickyId(0), StickyId(1)}

MpmLists == {{DETECT_SM_LIST_PMATCH, StickyId(0)},
             {DETECT_SM_LIST_PMATCH, StickyId(0), StickyId(1)}}

NextLookup ==
    \/ \E type \in {"DETECT_CONTENT", "DETECT_PCRE"},
          list \in {DETECT_SM_LIST_PMATCH, StickyId(0), StickyId(1)} :
          /\ op.name \notin LookupNames /\ op.count < MaxLookupOps
          /\ AppendSMToList(type, {}, list, TRUE)
    \/ \E sm_list \in {StickyId(0), StickyId(1)} :
          /\ op.name \notin LookupNames /\ op.count < MaxLookupOps
          /\ ContentModifierBufferSetup("", sm_list, ALPROTO_HTTP1)
    \/ \E list_id \in LookupLists, types \in LookupTypes :
          /\ op.name \notin LookupNames
          /\ GetLastSM("DetectGetLastSMByListId", list_id, types, {})
    \/ \E sm_list \in 0..Len(sm_mem), types \in LookupTypes :
          /\ op.name \notin LookupNames
          /\ GetLastSM("DetectGetLastSMByListPtr", sm_list, types, {})
    \/ \E types \in LookupTypes :
          /\ op.name \notin LookupNames
          /\ GetLastSM("DetectGetLastSMFromLists", NULL, types, {})
    \/ \E mpm \in MpmLists :
          /\ op.name \notin LookupNames
          /\ GetLastSM("DetectGetLastSMFromMpmLists", NULL, {"DETECT_CONTENT"}, mpm)
    \/ /\ op.name \notin LookupNames
       /\ GetLastSM("DetectGetLastSM", NULL, {"DETECT_CONTENT", "DETECT_PCRE"}, {})

SpecLookup == InitLookup /\ [][NextLookup]_vars

\* the SigMatches from sm back to the head of its list
RECURSIVE BackFrom(_, _)
BackFrom(mem, sm) ==
    IF sm = NULL THEN {} ELSE {sm} \cup BackFrom(mem, mem[sm].prev)

\* the list tails the lookup op.name goes through
ScannedTails ==
    LET d == cur_sig.init_data
        all == 1..Len(d.buffers)
        classical == 0..(DETECT_SM_LIST_MAX - 1)
    IN  CASE op.name = "DetectGetLastSMByListId" ->
                IF op.arg[1] >= DETECT_SM_LIST_MAX
                THEN {d.buffers[x].tail : x \in all}
                ELSE {d.smlists_tail[op.arg[1]]}
          [] op.name = "DetectGetLastSMByListPtr" -> {op.arg[1]}
          [] op.name = "DetectGetLastSMFromLists" ->
                {d.buffers[x].tail :
                    x \in {y \in all : d.list \in {DETECT_SM_LIST_NOTSET, d.buffers[y].id}}}
                \cup {d.smlists_tail[l] :
                        l \in {k \in classical : d.list \in {DETECT_SM_LIST_NOTSET, k}}}
          [] op.name = "DetectGetLastSMFromMpmLists" ->
                {d.buffers[x].tail : x \in {y \in all : d.buffers[y].id \in op.arg[3]}}
                \cup {d.smlists_tail[l] : l \in classical \cap op.arg[3]}
          [] op.name = "DetectGetLastSM" ->
                {d.buffers[x].tail : x \in all} \cup {d.smlists_tail[l] : l \in classical}

\* the SigMatches of the requested types in the lists gone through
ScannedOfTypes ==
    {sm \in UNION {BackFrom(sm_mem, t) : t \in ScannedTails} :
        sm_mem[sm].type \in op.arg[2]}

\* C33 (as claimed): every lookup of the last SigMatch returns, of the
\* SigMatches of the requested keyword types in the lists it goes through, the
\* one with the greatest idx, or NULL if there is none, also after SigMatches
\* were transferred from the payload list into sticky buffers.
C33_LastMatchHasGreatestIdx ==
    op.name \in LookupNames =>
       /\ (op.ret = NULL) <=> (ScannedOfTypes = {})
       /\ op.ret # NULL =>
             /\ op.ret \in ScannedOfTypes
             /\ \A sm \in ScannedOfTypes : sm_mem[sm].idx <= sm_mem[op.ret].idx

\* every list gone through is in the order of idx
ScannedInIdxOrder ==
    \A t \in ScannedTails : \A sm \in BackFrom(sm_mem, t) :
       sm_mem[sm].prev # NULL => sm_mem[sm_mem[sm].prev].idx < sm_mem[sm].idx

\* what holds: the lookups return the SigMatch with the greatest idx as long as
\* every list they go through is in the order of idx
C33_GreatestIdxInOrderedLists ==
    (op.name \in LookupNames /\ ScannedInIdxOrder) =>
       /\ (op.ret = NULL) <=> (ScannedOfTypes = {})
       /\ op.ret # NULL =>
             /\ op.ret \in ScannedOfTypes
             /\ \A sm \in ScannedOfTypes : sm_mem[sm].idx <= sm_mem[op.ret].idx

\* a lookup in a buffer that a transfer left out of idx order
C33_OutOfOrder ==
    /\ op.name \in LookupNames /\ ~ScannedInIdxOrder
    /\ op.ret # NULL
    /\ \E sm \in ScannedOfTypes : sm_mem[sm].idx > sm_mem[op.ret].idx


\* the SigMatches of the list list_id names: the classical list with the id,
\* or the sticky buffers with the id
MembersOfList(list_id) ==
    IF list_id >= DETECT_SM_LIST_MAX
    THEN UNION {Elems(ListOf(sm_mem, cur_sig.init_data.buffers[x].head)) :
                   x \in {y \in 1..Len(cur_sig.init_data.buffers) :
                             cur_sig.init_data.buffers[y].id = list_id}}
    ELSE Elems(ListOf(sm_mem, cur_sig.init_data.smlists[list_id]))

\* C34 (as claimed): DetectGetLastSMByListId returns only a SigMatch of the
\* list that list_id names (the classical list, or the sticky buffer with the
\* id), and NULL when that list holds none of the requested types, whatever
\* the other lists and buffers hold.
C34_LookupStaysInItsList ==
    op.name = "DetectGetLastSMByListId" =>
       /\ op.ret # NULL => op.ret \in MembersOfList(op.arg[1])
       /\ (\A sm \in MembersOfList(op.arg[1]) : sm_mem[sm].type \notin op.arg[2])
             => op.ret = NULL

\* what holds: the lookup stays in its list for the id of a classical list
C34_ClassicalLookupStaysInItsList ==
    (op.name = "DetectGetLastSMByListId" /\ op.arg[1] < DETECT_SM_LIST_MAX) =>
       /\ op.ret # NULL =>
             /\ op.ret \in MembersOfList(op.arg[1])
             /\ sm_mem[op.ret].type \in op.arg[2]
       /\ (\A sm \in MembersOfList(op.arg[1]) : sm_mem[sm].type \notin op.arg[2])
             => op.ret = NULL

\* a lookup in the payload list while a sticky buffer holds a SigMatch of the
\* type and the payload list does not
C34_ClassicalElsewhere ==
    /\ op.name = "DetectGetLastSMByListId" /\ op.arg[1] = DETECT_SM_LIST_PMATCH
    /\ op.ret = NULL
    /\ cur_sig.init_data.smlists[DETECT_SM_LIST_PMATCH] # NULL
    /\ \E x \in 1..Len(cur_sig.init_data.buffers) :
          sm_mem[cur_sig.init_data.buffers[x].tail].type \in op.arg[2]


----------------------------------------------------------------------------
(* File handling of a parsed signature *)

\* what the setups of the file keywords leave in the signature: filestore,
\* filename and file_data
FileKeywords == {"filestore", "filename", "file_data"}

FileKeywordSetup(s, kw) ==
    CASE kw = "filestore" -> [s EXCEPT !.flags = @ \cup {"SIG_FLAG_FILESTORE"}]
      [] kw = "filename" ->
            [s EXCEPT !.file_flags = @ \cup {"FILE_SIG_NEED_FILE", "FILE_SIG_NEED_FILENAME"}]
      [] kw = "file_data" ->
            [s EXCEPT !.init_data.init_flags = @ \cup {"SIG_FLAG_INIT_FILEDATA"}]

\* a keyword setup runs after the header, unless an earlier one failed
FileSetupRuns ==
    /\ op.count >= 1 /\ ~op.failed /\ op.count < MaxFileOps
    /\ op.name # "SigValidateFileHandling"

FileKeyword(kw) ==
    /\ FileSetupRuns
    /\ cur_sig' = FileKeywordSetup(cur_sig, kw)
    /\ op' = [op EXCEPT !.name = kw, !.ret = 0, !.count = @ + 1, !.arg = <<kw>>,
                        !.was = cur_sig]
    /\ UNCHANGED sm_mem
    /\ EngineIdle

\* the parsed signature is validated
ValidateFileHandling ==
    /\ op.count >= 1 /\ ~op.failed
    /\ op.name # "SigValidateFileHandling"
    /\ op' = [op EXCEPT !.name = "SigValidateFileHandling",
                        !.ret = SigValidateFileHandling(cur_sig), !.was = cur_sig]
    /\ UNCHANGED <<cur_sig, sm_mem>>
    /\ EngineIdle

FileAlprotos == {ALPROTO_HTTP1, ALPROTO_HTTP2, ALPROTO_TLS}

FileAlprotoArrays == DistinctSeqs({ALPROTO_HTTP1, ALPROTO_TLS, ALPROTO_QUIC}, 3)

NextFiles ==
    \/ \E p \in {"tcp", "http", "tls"} : ParseProto(p)
    \/ \E alproto \in FileAlprotos : FileSetupRuns /\ SetAppProto(alproto)
    \/ \E alprotos \in FileAlprotoArrays : FileSetupRuns /\ SetMultiAppProto(alprotos)
    \/ \E kw \in FileKeywords : FileKeyword(kw)
    \/ ValidateFileHandling

SpecFiles == Init /\ [][NextFiles]_vars

\* the multi-alproto set as it is stored: the entries of alprotos in front of
\* the first unset one
StoredSet(s) ==
    {s.init_data.alprotos[i] : i \in {k \in 1..SIG_ALPROTO_MAX :
        \A m \in 1..k : s.init_data.alprotos[m] # ALPROTO_UNKNOWN}}

\* file handling was validated with the result ret
FilesValidated(ret) == op.name = "SigValidateFileHandling" /\ op.ret = ret

\* C35: SigValidateFileHandling lets a signature that does not inspect files
\* pass; one that inspects files is rejected unless its alproto, when set,
\* supports file handling and, when a multi-alproto set is stored, at least
\* one alproto of the set supports file handling; it is also rejected when
\* alproto is HTTP2 and it needs the file name.
C35_FileHandlingNeedsOneSupporter ==
    op.name = "SigValidateFileHandling" =>
       (op.ret = 1 <=>
          \/ ~SigInspectsFiles(cur_sig)
          \/ /\ cur_sig.alproto # ALPROTO_UNKNOWN
                   => AppLayerParserSupportsFiles(cur_sig.alproto)
             /\ StoredSet(cur_sig) # {}
                   => \E a \in StoredSet(cur_sig) : AppLayerParserSupportsFiles(a)
             /\ ~(/\ cur_sig.alproto = ALPROTO_HTTP2
                  /\ "FILE_SIG_NEED_FILENAME" \in cur_sig.file_flags))

\* C35 (as claimed): ... and, when a multi-alproto set is stored, every
\* alproto of the set supports file handling
C35_FileHandlingNeedsAllSupporters ==
    op.name = "SigValidateFileHandling" =>
       (op.ret = 1 <=>
          \/ ~SigInspectsFiles(cur_sig)
          \/ /\ cur_sig.alproto # ALPROTO_UNKNOWN
                   => AppLayerParserSupportsFiles(cur_sig.alproto)
             /\ \A a \in StoredSet(cur_sig) : AppLayerParserSupportsFiles(a)
             /\ ~(/\ cur_sig.alproto = ALPROTO_HTTP2
                  /\ "FILE_SIG_NEED_FILENAME" \in cur_sig.file_flags))

\* a signature that inspects files passes with a stored set of which one
\* alproto supports files and one does not
C35_Witness ==
    /\ FilesValidated(1) /\ SigInspectsFiles(cur_sig)
    /\ \E a, b \in StoredSet(cur_sig) :
          AppLayerParserSupportsFiles(a) /\ ~AppLayerParserSupportsFiles(b)

\* rejected: no alproto of the stored set supports files
C35_WitnessNone ==
    /\ FilesValidated(0)
    /\ Cardinality(StoredSet(cur_sig)) = 2
    /\ cur_sig.alproto = ALPROTO_UNKNOWN

\* rejected: the alproto does not support files
C35_WitnessAlproto ==
    /\ FilesValidated(0)
    /\ cur_sig.alproto = ALPROTO_TLS
    /\ StoredSet(cur_sig) = {}

\* rejected: HTTP2 and the file name
C35_WitnessHttp2 ==
    /\ FilesValidated(0)
    /\ cur_sig.alproto = ALPROTO_HTTP2
    /\ AppLayerParserSupportsFiles(cur_sig.alproto)

\* passes: HTTP2 without the file name, and a signature without files
C35_WitnessPass ==
    /\ FilesValidated(1)
    /\ \/ cur_sig.alproto = ALPROTO_HTTP2 /\ SigInspectsFiles(cur_sig)
       \/ cur_sig.alproto = ALPROTO_TLS /\ ~SigInspectsFiles(cur_sig)


----------------------------------------------------------------------------
(* The choice of the prefilter *)

\* the keyword types of the model in the order of enum DetectKeywordId
DetectKeywordId == <<"DETECT_ACK", "DETECT_DSIZE", "DETECT_TTL", "DETECT_CONTENT">>

KeywordTypeId(type) == CHOOSE i \in 1..Len(DetectKeywordId) : DetectKeywordId[i] = type

DETECT_TBLSIZE == Len(DetectKeywordId) + 1

\* the SigMatches of the classical lists
ClassicalSMs(s, mem) ==
    UNION {Elems(ListOf(mem, s.init_data.smlists[i])) : i \in 0..(DETECT_SM_LIST_MAX - 1)}

\* as PrefilterList, but the largest type
PrefilterListLargest(s, mem, supports) ==
    LET ids == {KeywordTypeId(mem[sm].type) :
                   sm \in {c \in ClassicalSMs(s, mem) : mem[c].type \in supports}}
    IN  IF ids = {} THEN DETECT_TBLSIZE
        ELSE CHOOSE i \in ids : \A j \in ids : j <= i

\* the lowest type of the classical SigMatches whose keyword supports
\* prefilter for s, DETECT_TBLSIZE if there is none
PrefilterList(s, mem, supports) ==
    LET ids == {KeywordTypeId(mem[sm].type) :
                   sm \in {c \in ClassicalSMs(s, mem) : mem[c].type \in supports}}
    IN  IF ids = {} THEN DETECT_TBLSIZE
        ELSE CHOOSE i \in ids : \A j \in ids : i <= j

\* the first SigMatch of the list from sm on with the type id, NULL if none
RECURSIVE FirstOfType(_, _, _)
FirstOfType(mem, sm, id) ==
    IF sm = NULL THEN NULL
    ELSE IF KeywordTypeId(mem[sm].type) = id THEN sm
    ELSE FirstOfType(mem, mem[sm].next, id)

\* the lists i..DETECT_SM_LIST_MAX - 1 gone through: in each the first SigMatch
\* of the type becomes prefilter_sm
RECURSIVE ApplyPrefilter(_, _, _, _)
ApplyPrefilter(s, mem, id, i) ==
    IF i >= DETECT_SM_LIST_MAX THEN s
    ELSE IF FirstOfType(mem, s.init_data.smlists[i], id) # NULL
    THEN ApplyPrefilter(
            [s EXCEPT !.init_data.prefilter_sm = FirstOfType(mem, s.init_data.smlists[i], id),
                      !.flags = @ \cup {"SIG_FLAG_PREFILTER"}],
            mem, id, i + 1)
    ELSE ApplyPrefilter(s, mem, id, i + 1)

\* no mpm: a keyword that supports prefilter is taken, if the engine allows
SigSetupPrefilterAuto(s, mem, ext) ==
    IF ~s.init_data.has_possible_prefilter \/ ext.g_skip_prefilter THEN s
    ELSE IF ext.prefilter_setting # "DETECT_PREFILTER_AUTO" THEN s
    ELSE IF PrefilterList(s, mem, ext.supports) = DETECT_TBLSIZE THEN s
    ELSE ApplyPrefilter(s, mem, PrefilterList(s, mem, ext.supports), 0)

\* external: the fast pattern picker leaves the content it chose in mpm_sm
RetrieveFPForSig(s, fp) == [s EXCEPT !.init_data.mpm_sm = fp]

\* picked: the signature after RetrieveFPForSig
SigSetupPrefilterPicked(picked, mem, ext) ==
    IF picked.init_data.mpm_sm # NULL
    THEN [s |-> [picked EXCEPT !.flags = @ \cup {"SIG_FLAG_PREFILTER"}], fp_ran |-> TRUE]
    ELSE [s |-> SigSetupPrefilterAuto(picked, mem, ext), fp_ran |-> TRUE]

\* ext: what the picker chooses, g_skip_prefilter, de_ctx->prefilter_setting
\* and the keyword types whose SupportsPrefilter accepts s
SigSetupPrefilter(s, mem, ext) ==
    IF /\ s.init_data.prefilter_sm # NULL
       /\ mem[s.init_data.prefilter_sm].type # "DETECT_CONTENT"
    THEN [s |-> [s EXCEPT !.flags = @ \cup {"SIG_FLAG_PREFILTER"}], fp_ran |-> FALSE]
    ELSE SigSetupPrefilterPicked(RetrieveFPForSig(s, ext.fp), mem, ext)

\* the keywords of a rule: the type of the SigMatch and the list it goes to
PrefilterKinds ==
    {<<"DETECT_ACK", DETECT_SM_LIST_MATCH>>, <<"DETECT_DSIZE", DETECT_SM_LIST_MATCH>>,
     <<"DETECT_TTL", DETECT_SM_LIST_MATCH>>, <<"DETECT_CONTENT", DETECT_SM_LIST_PMATCH>>,
     <<"DETECT_TTL", DETECT_SM_LIST_MATCH + 2>>}

\* the keywords of kinds set up in order
RECURSIVE SetupKinds(_, _)
SetupKinds(r, kinds) ==
    IF kinds = <<>> THEN r
    ELSE SetupKinds(
            SCSigMatchAppendSMToList(r.s, r.mem, Head(kinds)[1], {}, Head(kinds)[2], TRUE),
            Tail(kinds))

\* a parsed signature: its SigMatches, the SigMatch the prefilter keyword
\* marked, if any, and whether a keyword with a prefilter engine was seen
InitPrefilter ==
    /\ \E kinds \in SeqsUpTo(PrefilterKinds, MaxPrefilterSms), possible \in BOOLEAN :
          \E r \in {SetupKinds(SigRes(NULL, SigAllocInitData, <<>>), kinds)} :
             \E marked \in 0..Len(r.mem) :
                /\ cur_sig = [r.s EXCEPT !.init_data.prefilter_sm = marked,
                                         !.init_data.has_possible_prefilter = possible]
                /\ sm_mem = r.mem
    /\ op = NoOp
    /\ EngineInit

PrefilterExt ==
    [fp : {NULL} \cup {sm \in 1..Len(sm_mem) : sm_mem[sm].type = "DETECT_CONTENT"},
     g_skip_prefilter : BOOLEAN,
     prefilter_setting : {"DETECT_PREFILTER_MPM", "DETECT_PREFILTER_AUTO"},
     supports : {{}, {"DETECT_DSIZE"}, {"DETECT_TTL"},
                 {"DETECT_ACK", "DETECT_DSIZE", "DETECT_TTL"}}]

SetupPrefilter(ext) ==
    /\ op.count = 0
    /\ \E r \in {SigSetupPrefilter(cur_sig, sm_mem, ext)} :
          /\ cur_sig' = r.s
          /\ op' = [op EXCEPT !.name = "SigSetupPrefilter", !.ret = r.fp_ran, !.count = 1,
                              !.arg = ext, !.was = cur_sig]
    /\ UNCHANGED sm_mem
    /\ EngineIdle

NextPrefilter == \E ext \in PrefilterExt : SetupPrefilter(ext)

SpecPrefilter == InitPrefilter /\ [][NextPrefilter]_vars

\* the classical SigMatches whose keyword supports prefilter for the signature
PrefilterCandidates ==
    {sm \in ClassicalSMs(cur_sig, sm_mem) : sm_mem[sm].type \in op.arg.supports}

\* the prefilter keyword marked a SigMatch that is not a content
ExplicitPrefilter ==
    /\ op.was.init_data.prefilter_sm # NULL
    /\ sm_mem[op.was.init_data.prefilter_sm].type # "DETECT_CONTENT"

AutoPrefilter ==
    /\ op.was.init_data.has_possible_prefilter
    /\ ~op.arg.g_skip_prefilter
    /\ op.arg.prefilter_setting = "DETECT_PREFILTER_AUTO"

\* C36: SigSetupPrefilter keeps an explicit prefilter_sm that is not a content
\* and sets SIG_FLAG_PREFILTER without running the fast pattern picker;
\* otherwise, if the picker sets mpm_sm, it sets SIG_FLAG_PREFILTER and leaves
\* prefilter_sm; otherwise, only with has_possible_prefilter, g_skip_prefilter
\* off and the setting AUTO, prefilter_sm becomes a classical SigMatch whose
\* type is the lowest of those whose keyword supports prefilter, and
\* SIG_FLAG_PREFILTER is set; in every other case SIG_FLAG_PREFILTER stays
\* clear.  So SIG_FLAG_PREFILTER implies mpm_sm or prefilter_sm is not NULL.
C36_PrefilterChoice ==
    op.name = "SigSetupPrefilter" =>
       /\ IF ExplicitPrefilter
          THEN /\ cur_sig.init_data.prefilter_sm = op.was.init_data.prefilter_sm
               /\ "SIG_FLAG_PREFILTER" \in cur_sig.flags
               /\ ~op.ret
               /\ cur_sig.init_data.mpm_sm = NULL
          ELSE IF op.arg.fp # NULL
          THEN /\ cur_sig.init_data.mpm_sm = op.arg.fp
               /\ "SIG_FLAG_PREFILTER" \in cur_sig.flags
               /\ cur_sig.init_data.prefilter_sm = op.was.init_data.prefilter_sm
          ELSE IF AutoPrefilter /\ PrefilterCandidates # {}
          THEN /\ cur_sig.init_data.prefilter_sm \in ClassicalSMs(cur_sig, sm_mem)
               /\ sm_mem[cur_sig.init_data.prefilter_sm].type \in op.arg.supports
               /\ \A sm \in PrefilterCandidates :
                     KeywordTypeId(sm_mem[cur_sig.init_data.prefilter_sm].type)
                        <= KeywordTypeId(sm_mem[sm].type)
               /\ "SIG_FLAG_PREFILTER" \in cur_sig.flags
               /\ cur_sig.init_data.mpm_sm = NULL
          ELSE /\ "SIG_FLAG_PREFILTER" \notin cur_sig.flags
               /\ cur_sig.init_data.prefilter_sm = op.was.init_data.prefilter_sm
               /\ cur_sig.init_data.mpm_sm = NULL
       /\ "SIG_FLAG_PREFILTER" \in cur_sig.flags =>
             cur_sig.init_data.mpm_sm # NULL \/ cur_sig.init_data.prefilter_sm # NULL

\* the lowest of two supporting types was chosen, not the first in the list,
\* after the picker found nothing for the content the prefilter keyword marked
C36_Witness ==
    /\ op.name = "SigSetupPrefilter" /\ op.ret
    /\ op.was.init_data.prefilter_sm # NULL
    /\ cur_sig.init_data.prefilter_sm # op.was.init_data.prefilter_sm
    /\ sm_mem[cur_sig.init_data.prefilter_sm].type = "DETECT_DSIZE"
    /\ \E sm \in PrefilterCandidates : sm_mem[sm].type = "DETECT_TTL"
    /\ cur_sig.init_data.smlists[DETECT_SM_LIST_MATCH] # cur_sig.init_data.prefilter_sm

\* an explicit prefilter that is not a content
C36_WitnessExplicit ==
    /\ op.name = "SigSetupPrefilter" /\ ExplicitPrefilter
    /\ op.arg.fp # NULL

\* the picker chose a content
C36_WitnessMpm ==
    /\ op.name = "SigSetupPrefilter" /\ ~ExplicitPrefilter
    /\ cur_sig.init_data.mpm_sm # NULL
    /\ PrefilterCandidates # {} /\ AutoPrefilter

\* no prefilter although a keyword supports it: the setting is not AUTO
C36_WitnessNotAuto ==
    /\ op.name = "SigSetupPrefilter"
    /\ "SIG_FLAG_PREFILTER" \notin cur_sig.flags
    /\ PrefilterCandidates # {}
    /\ op.was.init_data.has_possible_prefilter /\ ~op.arg.g_skip_prefilter


----------------------------------------------------------------------------
(* The keyword ctxs of a signature from its building to SigFree *)

\* s->init_data after SCFree: NULL
NoInitData == [freed |-> TRUE]

\* the ctx the k-th keyword setup allocates
CtxOf(k) == {"ctx" \o ToString(k)}

\* the sequences of seqs joined
RECURSIVE Flat(_)
Flat(seqs) == IF seqs = <<>> THEN <<>> ELSE Head(seqs) \o Flat(Tail(seqs))

\* the calls of the Free callback made by SigMatchFree for the cells of a list
FreeList(mem, head) ==
    Flat([j \in 1..Len(ListOf(mem, head)) |->
             IF mem[ListOf(mem, head)[j]].ctx # NullCtx
             THEN <<mem[ListOf(mem, head)[j]].ctx>> ELSE <<>>])

\* the array made of the list from head and the cells, whose ctx went to the
\* array; <<>> is the NULL returned for the empty list
SigMatchList2DataArray(mem, head) ==
    IF head = NULL THEN [smd |-> <<>>, mem |-> mem]
    ELSE [smd |-> [j \in 1..Len(ListOf(mem, head)) |->
                      [type |-> mem[ListOf(mem, head)[j]].type,
                       ctx |-> mem[ListOf(mem, head)[j]].ctx,
                       is_last |-> mem[ListOf(mem, head)[j]].next = NULL]],
          mem |-> [c \in 1..Len(mem) |->
                      IF c \in Elems(ListOf(mem, head))
                      THEN [mem[c] EXCEPT !.ctx = NullCtx] ELSE mem[c]]]

\* as SigMatchFreeArrays, but the ctxs are freed whatever ctxs says
SigMatchFreeArraysAlways(s, ctxs) ==
    Flat([l \in 1..DETECT_SM_LIST_MAX |->
             IF s.sm_arrays[l - 1] # <<>>
             THEN [j \in 1..Len(s.sm_arrays[l - 1]) |-> s.sm_arrays[l - 1][j].ctx]
             ELSE <<>>])

\* the calls of the Free callback made by SigMatchFreeArrays
SigMatchFreeArrays(s, ctxs) ==
    Flat([l \in 1..DETECT_SM_LIST_MAX |->
             IF s.sm_arrays[l - 1] # <<>> /\ ctxs
             THEN [j \in 1..Len(s.sm_arrays[l - 1]) |-> s.sm_arrays[l - 1][j].ctx]
             ELSE <<>>])

\* the calls of the Free callback made by SigFree, in order
SigFreeCtxs(s, mem) ==
    IF s.init_data # NoInitData
    THEN Flat([l \in 1..DETECT_SM_LIST_MAX |-> FreeList(mem, s.init_data.smlists[l - 1])])
         \o Flat([x \in 1..Len(s.init_data.buffers) |->
                     FreeList(mem, s.init_data.buffers[x].head)])
         \o SigMatchFreeArrays(s, FALSE)
    ELSE SigMatchFreeArrays(s, TRUE)

\* the last operation on the signature, the ctxs allocated for it so far and
\* the calls of Free
LifeOp(name, count, ctxs, freed, was) ==
    [name |-> name, ret |-> 0, count |-> count, failed |-> FALSE, order |-> <<>>,
     sm |-> NULL, arg |-> <<>>, was |-> was, ctxs |-> ctxs, freed |-> freed]

InitLife ==
    /\ cur_sig = SigAllocInitData
    /\ sm_mem = <<>>
    /\ op = LifeOp("", 0, {}, <<>>, SigAllocInitData)
    /\ EngineInit

\* no list flattened yet
Building(s) ==
    /\ s.init_data # NoInitData
    /\ \A l \in 0..(DETECT_SM_LIST_MAX - 1) : s.sm_arrays[l] = <<>>

\* a keyword setup allocates its ctx and appends its SigMatch
LifeSetup(type, list) ==
    /\ op.name # "SigFree" /\ Building(cur_sig)
    /\ op.count < MaxLifeSms
    /\ \E r \in {SCSigMatchAppendSMToList(cur_sig, sm_mem, type, CtxOf(op.count + 1),
                                          list, TRUE)} :
          /\ r.ret # NULL
          /\ cur_sig' = r.s
          /\ sm_mem' = r.mem
          /\ op' = LifeOp("SCSigMatchAppendSMToList", op.count + 1,
                          op.ctxs \cup {CtxOf(op.count + 1)}, <<>>, cur_sig)
    /\ EngineIdle

\* the engine build flattens the classical list l
LifeFlatten(l) ==
    /\ op.name # "SigFree" /\ cur_sig.init_data # NoInitData
    /\ cur_sig.sm_arrays[l] = <<>> /\ cur_sig.init_data.smlists[l] # NULL
    /\ \E r \in {SigMatchList2DataArray(sm_mem, cur_sig.init_data.smlists[l])} :
          /\ cur_sig' = [cur_sig EXCEPT !.sm_arrays[l] = r.smd]
          /\ sm_mem' = r.mem
          /\ op' = LifeOp("SigMatchList2DataArray", op.count, op.ctxs, <<>>, cur_sig)
    /\ EngineIdle

\* the engine build, all classical lists flattened, frees the SigMatches and
\* the init_data
LifeReleaseInitData ==
    /\ op.name # "SigFree" /\ cur_sig.init_data # NoInitData
    /\ cur_sig.init_data.buffers = <<>>
    /\ \A l \in 0..(DETECT_SM_LIST_MAX - 1) :
          cur_sig.init_data.smlists[l] # NULL => cur_sig.sm_arrays[l] # <<>>
    /\ cur_sig' = [cur_sig EXCEPT !.init_data = NoInitData]
    /\ sm_mem' = <<>>
    /\ op' = LifeOp("SigMatchPrepare", op.count, op.ctxs,
                    Flat([l \in 1..DETECT_SM_LIST_MAX |->
                             FreeList(sm_mem, cur_sig.init_data.smlists[l - 1])]),
                    cur_sig)
    /\ EngineIdle

LifeSigFree ==
    /\ op.name # "SigFree"
    /\ cur_sig' = [cur_sig EXCEPT !.init_data = NoInitData,
                                  !.sm_arrays = [l \in 0..(DETECT_SM_LIST_MAX - 1) |-> <<>>]]
    /\ sm_mem' = <<>>
    /\ op' = LifeOp("SigFree", op.count, op.ctxs, SigFreeCtxs(cur_sig, sm_mem), cur_sig)
    /\ EngineIdle

NextLife ==
    \/ \E type \in {"DETECT_CONTENT", "DETECT_PCRE"},
          list \in {DETECT_SM_LIST_MATCH, DETECT_SM_LIST_PMATCH, StickyId(0)} :
          LifeSetup(type, list)
    \/ \E l \in 0..(DETECT_SM_LIST_MAX - 1) : LifeFlatten(l)
    \/ LifeReleaseInitData
    \/ LifeSigFree

SpecLife == InitLife /\ [][NextLife]_vars

\* how often x occurs in seq
Count(seq, x) == Cardinality({j \in 1..Len(seq) : seq[j] = x})

\* the holders of ctx: SigMatch cells and entries of the flattened arrays
CellHolders(ctx) == {c \in 1..Len(sm_mem) : sm_mem[c].ctx = ctx}

ArrayHolders(ctx) ==
    {<<l, j>> \in (0..(DETECT_SM_LIST_MAX - 1)) \X (1..MaxLifeSms + 1) :
        /\ cur_sig.sm_arrays[l] # <<>>
        /\ j <= Len(cur_sig.sm_arrays[l])
        /\ cur_sig.sm_arrays[l][j].ctx = ctx}

OneHolder ==
    op.name # "SigFree" =>
       \A ctx \in op.ctxs :
          /\ Cardinality(CellHolders(ctx)) + Cardinality(ArrayHolders(ctx)) = 1
          /\ Count(op.freed, ctx) = 0

\* the ctx lay in a flattened array of the signature SigFree got
InArrayOf(s, ctx) ==
    \E l \in 0..(DETECT_SM_LIST_MAX - 1) :
       /\ s.sm_arrays[l] # <<>>
       /\ \E j \in 1..Len(s.sm_arrays[l]) : s.sm_arrays[l][j].ctx = ctx

\* C37 (as claimed): while the signature is built, after some or all classical
\* lists were flattened with the init_data still there, and after the init_data
\* was freed, every keyword ctx has exactly one holder, and SigFree calls Free
\* exactly once for every ctx.
C37_EveryCtxFreedOnce ==
    /\ OneHolder
    /\ op.name = "SigFree" => \A ctx \in op.ctxs : Count(op.freed, ctx) = 1

\* C37: every keyword ctx has exactly one holder before SigFree; SigFree calls
\* Free at most once for a ctx, and not at all exactly for the ctxs of the
\* flattened arrays of a signature that still has its init_data.
C37_OneHolderFreedAtMostOnce ==
    /\ OneHolder
    /\ op.name = "SigFree" =>
          \A ctx \in op.ctxs :
             Count(op.freed, ctx) =
                IF op.was.init_data # NoInitData /\ InArrayOf(op.was, ctx) THEN 0 ELSE 1

\* SigFree of a signature with a flattened list and its init_data
C37_FlattenedNotFreed ==
    /\ op.name = "SigFree"
    /\ op.was.init_data # NoInitData
    /\ \E ctx \in op.ctxs : InArrayOf(op.was, ctx) /\ Count(op.freed, ctx) = 0
    /\ \E ctx \in op.ctxs : Count(op.freed, ctx) = 1

\* SigFree after the init_data was freed
C37_FreedFromArrays ==
    /\ op.name = "SigFree"
    /\ op.was.init_data = NoInitData
    /\ Len(op.freed) = MaxLifeSms


----------------------------------------------------------------------------
(* The duplicate table against sig_list *)

\* the first nodes of the rules among nodes, a stretch of sig_list: a
\* bidirectional rule has two nodes
RECURSIVE RuleHeads(_, _)
RuleHeads(h, nodes) ==
    IF nodes = <<>> THEN <<>>
    ELSE IF Bidirec(h[Head(nodes)]) /\ Len(nodes) >= 2
    THEN <<Head(nodes)>> \o RuleHeads(h, Tail(Tail(nodes)))
    ELSE <<Head(nodes)>> \o RuleHeads(h, Tail(nodes))

\* the wrappers sig_list calls for: one per rule, s its first node, s_prev the
\* first node of the rule in front of it
WrappersOf(heads) ==
    {[s |-> heads[j], s_prev |-> IF j = 1 THEN NULL ELSE heads[j - 1]] :
        j \in 1..Len(heads)}

\* C38: after every completed DetectEngineAppendSig call dup_sig_hash_table
\* holds exactly one wrapper per rule of sig_list and none for a freed
\* signature; the s of a wrapper is the first node of its rule, its s_prev the
\* first node of the rule right in front of it in sig_list, NULL exactly for
\* the rule at the head; the wrapper of a signature just inserted has s_prev
\* NULL.
C38_WrappersMirrorSigList ==
    (~last.aborted /\ ~last.ub) =>
       /\ de_ctx.dup_sig_hash_table = WrappersOf(RuleHeads(heap, ListNodes(heap, de_ctx)))
       /\ \A w \in de_ctx.dup_sig_hash_table :
             /\ Live(heap, w.s)
             /\ w.s_prev # NULL => Live(heap, w.s_prev)
             /\ w.s_prev = NULL <=> w.s = de_ctx.sig_list
       /\ Cardinality(de_ctx.dup_sig_hash_table)
             = Len(RuleHeads(heap, ListNodes(heap, de_ctx)))
       /\ last.ret # NULL => [s |-> last.ret, s_prev |-> NULL] \in de_ctx.dup_sig_hash_table

\* a bidirectional rule between two others was replaced by a newer revision:
\* the table of three rules was repointed
C38_Witness ==
    /\ last.dup_sig = 2 /\ last.ret # NULL
    /\ last.old_index > 1 /\ last.old_nodes = 2 /\ last.next_nodes >= 1
    /\ Cardinality(de_ctx.dup_sig_hash_table) = 3
    /\ \E w \in de_ctx.dup_sig_hash_table : w.s_prev # NULL /\ Bidirec(heap[w.s_prev])

\* a rule was rejected as a duplicate and freed: the table of two rules is as
\* it was
C38_WitnessRejected ==
    /\ last.dup_sig = 1 /\ last.ret = NULL /\ last.sig # NULL
    /\ ~Live(heap, last.sig)
    /\ Cardinality(de_ctx.dup_sig_hash_table) = 2


----------------------------------------------------------------------------
(* The limit of the buffer vector and the buffers in it *)

\* the operation had no buffer to go to and asked for a new one
AskedForNewBuffer ==
    \/ /\ StickyAppend
       /\ AppendTarget(op.was.init_data, op.arg[2]) > Len(op.was.init_data.buffers)
    \/ /\ op.name = "DetectEngineContentModifierBufferSetup"
       /\ op.was.init_data.smlists[DETECT_SM_LIST_PMATCH] # NULL
       /\ \A x \in 1..Len(op.was.init_data.buffers) :
             op.was.init_data.buffers[x].id # op.arg[1]

\* the operation reported its failure
Refused ==
    IF op.name = "SCSigMatchAppendSMToList" THEN op.ret = NULL ELSE op.ret = -1

\* C39: SignatureInitDataBufferCheckExpand refuses every request once
\* buffers_size is 64, so buffer_index never exceeds 56: the request for the
\* 57th buffer fails although the vector has 64 slots.
C39_NoMoreThan56Buffers ==
    /\ Len(cur_sig.init_data.buffers) <= 56
    /\ cur_sig.init_data.buffers_size >= 64 =>
          /\ SignatureInitDataBufferCheckExpand(cur_sig.init_data).ret = -1
          /\ Len(cur_sig.init_data.buffers) = 56
    /\ cur_sig.init_data.buffers_size < 64 =>
          SignatureInitDataBufferCheckExpand(cur_sig.init_data).ret = 0
    /\ (AskedForNewBuffer /\ Len(op.was.init_data.buffers) = 56) =>
          /\ Refused
          /\ op.was.init_data.buffers_size = 64
          /\ cur_sig.init_data.buffers = op.was.init_data.buffers
    /\ (AskedForNewBuffer /\ Len(op.was.init_data.buffers) < 56) =>
          IF Refused
          THEN /\ op.name = "DetectEngineContentModifierBufferSetup"
               /\ op.was.init_data.list # DETECT_SM_LIST_NOTSET
          ELSE Len(cur_sig.init_data.buffers) = Len(op.was.init_data.buffers) + 1

\* the content modifier was refused the 57th buffer
C39_Witness ==
    /\ op.name = "DetectEngineContentModifierBufferSetup"
    /\ AskedForNewBuffer /\ Refused
    /\ Len(cur_sig.init_data.buffers) = 56
    /\ cur_sig.init_data.buffers_size = 64

\* the append was refused the 57th buffer
C39_WitnessAppend ==
    /\ StickyAppend /\ AskedForNewBuffer /\ Refused
    /\ Len(cur_sig.init_data.buffers) = 56

\* the 56th buffer was opened: the vector grew to 64 slots
C39_WitnessLast ==
    /\ AskedForNewBuffer /\ ~Refused
    /\ Len(cur_sig.init_data.buffers) = 56
    /\ op.was.init_data.buffers_size = 56

\* the operation attached its SigMatch to a buffer
WentToBuffer ==
    \/ StickyAppend /\ op.ret # NULL
    \/ op.name = "DetectEngineContentModifierBufferSetup" /\ op.ret = 0

\* C40: through any sequence of appends to sticky lists and content modifier
\* setups no two buffers of the vector have the same id unless one of them is
\* multi-capable, and curbuf, once set, always is one of the buffers of the
\* vector: the one a SigMatch was appended to or moved into last.
C40_BufferIdsAndCurbuf ==
    /\ [](/\ \A x, y \in 1..Len(cur_sig.init_data.buffers) :
                (x # y /\ cur_sig.init_data.buffers[x].id = cur_sig.init_data.buffers[y].id)
                   => \/ cur_sig.init_data.buffers[x].multi_capable
                      \/ cur_sig.init_data.buffers[y].multi_capable
          /\ cur_sig.init_data.curbuf # NULL =>
                cur_sig.init_data.curbuf \in 1..Len(cur_sig.init_data.buffers)
          /\ cur_sig.init_data.buffers # <<>> => cur_sig.init_data.curbuf # NULL
          /\ WentToBuffer =>
                /\ cur_sig.init_data.curbuf # NULL
                /\ cur_sig.init_data.buffers[cur_sig.init_data.curbuf].tail = op.sm
                /\ op.sm # NULL /\ sm_mem[op.sm].attached
          /\ (op.count > 0 /\ ~WentToBuffer) =>
                cur_sig.init_data.curbuf = op.was.init_data.curbuf)
    /\ [][/\ cur_sig.init_data.curbuf # NULL => cur_sig'.init_data.curbuf # NULL
          /\ cur_sig'.init_data.curbuf # cur_sig.init_data.curbuf =>
                cur_sig'.init_data.buffers[cur_sig'.init_data.curbuf].tail = op'.sm]_vars

\* the content modifier moved a content into a buffer that was not curbuf,
\* beside a multi-capable buffer
C40_Witness ==
    /\ op.name = "DetectEngineContentModifierBufferSetup" /\ op.ret = 0
    /\ Len(cur_sig.init_data.buffers) = Len(op.was.init_data.buffers)
    /\ cur_sig.init_data.curbuf # op.was.init_data.curbuf
    /\ \E x \in 1..Len(cur_sig.init_data.buffers) : cur_sig.init_data.buffers[x].multi_capable

\* two buffers with the same id, one of them multi-capable
C40_WitnessSameId ==
    /\ WentToBuffer
    /\ \E x, y \in 1..Len(cur_sig.init_data.buffers) :
          /\ x # y
          /\ cur_sig.init_data.buffers[x].id = cur_sig.init_data.buffers[y].id

\* two setups in a row went to buffers
C40_WitnessTwice ==
    /\ WentToBuffer /\ op.count = 2
    /\ op.was.init_data.curbuf # cur_sig.init_data.curbuf
    /\ op.name = "DetectEngineContentModifierBufferSetup"
    /\ Len(cur_sig.init_data.buffers) = Len(op.was.init_data.buffers) + 1

====
